---- MODULE Spec2Model ----
(***************************************************************************)
(* mocaron: the MockServer (mock registry, request handler, call ledger,   *)
(* call queries, resets, snapshots) and the matcher evaluator it uses.     *)
(*                                                                         *)
(* Data representation.  Every optional JavaScript value is a record with  *)
(* a tag t and a payload v, so that values of different JavaScript types   *)
(* stay comparable:                                                        *)
(*   strings that the code inspects character by character (paths, and     *)
(*   the source of a regular expression) are sequences of one-character    *)
(*   strings; other strings are TLA+ strings;                              *)
(*   an object used as a map (query, headers) is the sequence of its       *)
(*   entries, in Object.entries order;                                     *)
(*   a JSON value is a record [t, v] naming its type and its canonical     *)
(*   content.                                                              *)
(***************************************************************************)
EXTENDS Integers, Sequences, FiniteSets, TLC

VARIABLES
    mocks,      \* this.#mocks : the Mock Registry, in registration order
    calls,      \* this.#calls : the Call Ledger, in arrival order
    server,     \* this.#server : "null", or "server" for the http.Server
    http,       \* the http.Server that this.#app.listen() made, if any
    snap,       \* the array the caller last obtained from mocks() or calls()
    op,         \* the operation that ran last
    req,        \* the request that operation handled (NoReq for the others)
    res,        \* the HTTP response it produced (NoRes for the others)
    arg,        \* the arguments of the call that is made or was made last
    ret,        \* the value it returned to its caller
    warnings,   \* the console.warn calls it made, in order
    invoked     \* the functions of the caller it invoked, in order

vars ==
    <<mocks, calls, server, http, snap, op, req, arg, res, ret, warnings,
      invoked>>

-----------------------------------------------------------------------------
(* Bounds of the model *)

MaxMocks == 3
MaxCalls == 2
MaxClosing == 2
MaxFound == 2
MaxRecorded == 3

-----------------------------------------------------------------------------
(* JavaScript values *)

Undef == [t |-> "undef", v |-> <<>>]
StrVal(s) == [t |-> "str", v |-> <<s>>]
NumVal(s) == [t |-> "num", v |-> <<s>>]
ArrVal(ss) == [t |-> "arr", v |-> ss]

\* obj[key] for an object given as its sequence of entries
Lookup(entries, key) ==
    IF \E i \in 1..Len(entries) : entries[i].k = key
    THEN entries[CHOOSE i \in 1..Len(entries) : entries[i].k = key].v
    ELSE Undef

\* String.prototype.toLowerCase on the strings of the model
ToLowerCase(s) ==
    CASE s = "GET" -> "get"
      [] s = "Get" -> "get"
      [] s = "POST" -> "post"
      [] s = "PUT" -> "put"
      [] s = "PATCH" -> "patch"
      [] s = "DELETE" -> "delete"
      [] s = "X-Id" -> "x-id"
      [] s = "X-ID" -> "x-id"
      [] OTHER -> s

\* deep-equal with { strict: true } on undefined, strings, numbers and
\* arrays of strings: same type and same content, order-sensitive
DeepEqual(a, b) == a.t = b.t /\ a.v = b.v

\* JSON.parse on the body texts of the model: ok = FALSE is a SyntaxError
JsonParse(text) ==
    CASE text = "{\"a\":1}" -> [ok |-> TRUE, val |-> [t |-> "obj", v |-> "a:1"]]
      [] text = "{ \"a\": 1 }" -> [ok |-> TRUE, val |-> [t |-> "obj", v |-> "a:1"]]
      [] text = "{\"a\":2}" -> [ok |-> TRUE, val |-> [t |-> "obj", v |-> "a:2"]]
      [] text = "1" -> [ok |-> TRUE, val |-> [t |-> "num", v |-> "1"]]
      [] text = "\"1\"" -> [ok |-> TRUE, val |-> [t |-> "str", v |-> "1"]]
      [] OTHER -> [ok |-> FALSE, val |-> [t |-> "none", v |-> ""]]

\* JSON.stringify of a structural value
JsonStringify(val) ==
    CASE val.t = "obj" /\ val.v = "a:1" -> "{\"a\":1}"
      [] val.t = "obj" /\ val.v = "a:2" -> "{\"a\":2}"
      [] val.t = "num" -> val.v
      [] OTHER -> "null"

\* s occurs in p as a contiguous run of characters
IsSubstring(s, p) ==
    \E i \in 0..(Len(p) - Len(s)) :
        \A j \in 1..Len(s) : p[i + j] = s[j]

-----------------------------------------------------------------------------
(* Matchers and requests *)

Absent == [t |-> "absent", v |-> <<>>]
AbsentStr == [t |-> "absent", v |-> ""]
AbsentBody == [t |-> "absent", jt |-> "", v |-> ""]

\* A MatcherObj; a field that is not set is Absent / AbsentStr
MatcherObj(method, path, query, headers, body) ==
    [kind |-> "obj", fn |-> "", method |-> method, path |-> path,
     query |-> query, headers |-> headers, body |-> body]

\* A MatcherFn, named by the function it is
MatcherFn(name) ==
    [kind |-> "fn", fn |-> name, method |-> AbsentStr, path |-> Absent,
     query |-> Absent, headers |-> Absent, body |-> AbsentBody]

EmptyMatcher == MatcherObj(AbsentStr, Absent, Absent, Absent, AbsentBody)

Method(s) == [t |-> "str", v |-> s]
PathStr(p) == [t |-> "str", v |-> p]
PathRe(p) == [t |-> "re", v |-> p]
Entries(es) == [t |-> "obj", v |-> es]
\* a body given as a string, and one given as a structural value
BodyStr(s) == [t |-> "str", jt |-> "", v |-> s]
BodyJson(val) == [t |-> "json", jt |-> val.t, v |-> val.v]

NoBody == [t |-> "absent", v |-> ""]
Buffer(text) == [t |-> "buf", v |-> text]

Request(method, path, query, headers, body) ==
    [method |-> method, path |-> path, query |-> query,
     headers |-> headers, body |-> body]

\* The matcher functions test code supplies: their result on a request
MatcherFnThrows(name, r) == name = "throws"
MatcherFnResult(name, r) ==
    CASE name = "isPost" -> r.method = "POST"
      [] name = "always" -> TRUE
      [] name \in {"registers", "resets"} -> TRUE
      [] OTHER -> FALSE

matchMethod(matcher, r) ==
    \/ matcher.method.t = "absent"
    \/ matcher.method.v = ""
    \/ ToLowerCase(matcher.method.v) = ToLowerCase(r.method)

matchPath(matcher, r) ==
    \/ matcher.path.t = "absent"
    \/ (matcher.path.t = "str" /\ matcher.path.v = <<>>)
    \/ IF matcher.path.t = "re"
       THEN IsSubstring(matcher.path.v, r.path)
       ELSE r.path = matcher.path.v

\* A slip in matchQuery: the request may carry no other parameter
matchQuery_Exact(matcher, r) ==
    IF matcher.query.t = "absent" THEN TRUE
    ELSE /\ \A i \in 1..Len(matcher.query.v) :
                DeepEqual(Lookup(r.query, matcher.query.v[i].k),
                          matcher.query.v[i].v)
         /\ \A j \in 1..Len(r.query) :
                \E i \in 1..Len(matcher.query.v) :
                    matcher.query.v[i].k = r.query[j].k

matchQuery(matcher, r) ==
    IF matcher.query.t = "absent" THEN TRUE
    ELSE \A i \in 1..Len(matcher.query.v) :
            DeepEqual(Lookup(r.query, matcher.query.v[i].k),
                      matcher.query.v[i].v)

\* A slip in matchHeaders: the name is looked up as the matcher spells it
matchHeaders_CaseSensitive(matcher, r) ==
    IF matcher.headers.t = "absent" THEN TRUE
    ELSE \A i \in 1..Len(matcher.headers.v) :
            Lookup(r.headers, matcher.headers.v[i].k)
                = matcher.headers.v[i].v

matchHeaders(matcher, r) ==
    IF matcher.headers.t = "absent" THEN TRUE
    ELSE \A i \in 1..Len(matcher.headers.v) :
            Lookup(r.headers, ToLowerCase(matcher.headers.v[i].k))
                = matcher.headers.v[i].v

\* A slip in matchBody: a matcher without a body wants a request without one
matchBody_AbsentMeansNoBody(matcher, r) ==
    IF matcher.body.t = "absent" THEN r.body.t = "absent"
    ELSE IF r.body.t = "absent" THEN FALSE
    ELSE IF matcher.body.t = "str" THEN matcher.body.v = r.body.v
    ELSE /\ JsonParse(r.body.v).ok
         /\ JsonParse(r.body.v).val.t = matcher.body.jt
         /\ JsonParse(r.body.v).val.v = matcher.body.v

\* A slip in matchBody: a structural body is compared as text
matchBody_TextCompare(matcher, r) ==
    IF matcher.body.t = "absent" THEN TRUE
    ELSE IF r.body.t = "absent" THEN FALSE
    ELSE IF matcher.body.t = "str" THEN matcher.body.v = r.body.v
    ELSE JsonStringify([t |-> matcher.body.jt, v |-> matcher.body.v])
            = r.body.v

matchBody(matcher, r) ==
    IF matcher.body.t = "absent" THEN TRUE
    ELSE IF r.body.t = "absent" THEN FALSE
    ELSE IF matcher.body.t = "str" THEN matcher.body.v = r.body.v
    ELSE /\ JsonParse(r.body.v).ok
         /\ JsonParse(r.body.v).val.t = matcher.body.jt
         /\ JsonParse(r.body.v).val.v = matcher.body.v

\* matchRequest, for a matcher that does not throw on r
matchRequest(matcher, r) ==
    IF matcher.kind = "fn" THEN MatcherFnResult(matcher.fn, r)
    ELSE /\ matchMethod(matcher, r)
         /\ matchPath(matcher, r)
         /\ matchQuery(matcher, r)
         /\ matchHeaders(matcher, r)
         /\ matchBody(matcher, r)

\* matchRequest throws exactly when a matcher function does
matchRequestThrows(matcher, r) ==
    matcher.kind = "fn" /\ MatcherFnThrows(matcher.fn, r)

-----------------------------------------------------------------------------
(* Responses, mocks and calls *)

AbsentNum == [t |-> "absent", v |-> 0]
Status(n) == [t |-> "num", v |-> n]

\* A ResponseObj; a field that is not set is absent
ResponseObj(status, headers, body) ==
    [kind |-> "obj", fn |-> "", status |-> status, headers |-> headers,
     body |-> body]

\* A ResponseFn, named by the function it is
ResponseFn(name) ==
    [kind |-> "fn", fn |-> name, status |-> AbsentNum, headers |-> Absent,
     body |-> AbsentBody]

\* The response functions test code supplies
ResponseFnThrows(name, r) ==
    \/ name = "throws"
    \/ name = "parsed" /\ r.body.t # "absent" /\ ~JsonParse(r.body.v).ok
ResponseFnResult(name, r) ==
    CASE name = "echo" ->
            ResponseObj(AbsentNum, Absent,
                        IF r.body.t = "absent" THEN AbsentBody
                        ELSE [t |-> "buf", jt |-> "", v |-> r.body.v])
      [] name = "teapot" -> ResponseObj(Status(418), Absent, BodyStr(r.method))
      [] name = "parsed" ->
            IF r.body.t = "absent"
            THEN ResponseObj(Status(400), Absent, AbsentBody)
            ELSE ResponseObj(AbsentNum, Absent,
                             BodyJson(JsonParse(r.body.v).val))
      [] OTHER -> ResponseObj(AbsentNum, Absent, AbsentBody)

\* MockOptions as stored: overwrite is "unset", "true" or "false"
Options(overwrite) == [overwrite |-> overwrite]

Mock(matcher, response, options) ==
    [matcher |-> matcher, response |-> response, options |-> options]

Call(request, matcher) == [request |-> request, matcher |-> matcher]

\* What the transport sends back
HttpResponse(status, headers, body) ==
    [status |-> status, headers |-> headers, body |-> body]

NoContent == [t |-> "none", v |-> ""]
Content(text) == [t |-> "text", v |-> text]

\* res.status(404).end()
NotFound == HttpResponse(404, <<>>, NoContent)

\* The handler threw: express's default error handler answers 500
InternalServerError == HttpResponse(500, <<>>, NoContent)

\* The values of op, req, res and ret for operations they do not apply to
NoReq == Request("", <<>>, <<>>, <<>>, NoBody)
NoRes == HttpResponse(0, <<>>, NoContent)
Void == [t |-> "void", b |-> FALSE]
This == [t |-> "this", b |-> FALSE]
Bool(b) == [t |-> "bool", b |-> b]
NoArg == [matcher |-> EmptyMatcher, times |-> 0]
NoSnap == [of |-> "none", alias |-> FALSE, val |-> <<>>]

\* Array.prototype.at(-1)
AtLast(seq) == seq[Len(seq)]

-----------------------------------------------------------------------------
(* The request handler *)

\* this.#mocks.filter(({ matcher }) => matchRequest(matcher, req)):
\* Array.prototype.filter is SelectSeq
Matches(registry, r) ==
    SelectSeq(registry, LAMBDA m : matchRequest(m.matcher, r))

\* A slip in MatchingThrows: a matcher function that throws is a non-match
MatchingThrows_Swallowed(registry, r) == FALSE

\* a matcher function throws while the registry is filtered
MatchingThrows(registry, r) ==
    \E i \in 1..Len(registry) : matchRequestThrows(registry[i].matcher, r)

\* A slip in Candidate: the first match is taken
Candidate_First(matches) == matches[1]

\* matches.length === 1 ? matches[0] : matches.at(-1)!
Candidate(matches) ==
    IF Len(matches) = 1 THEN matches[1] ELSE AtLast(matches)

\* A slip in IsAmbiguous: the overwrite option is not looked at
IsAmbiguous_IgnoresOverwrite(matches) == Len(matches) > 1

\* A slip in IsAmbiguous: overwrite: true on any of the matches is enough
IsAmbiguous_AnyOverwrite(matches) ==
    /\ Len(matches) > 1
    /\ \A i \in 1..Len(matches) : matches[i].options.overwrite # "true"

\* matches.length > 1 && !match.options.overwrite
IsAmbiguous(matches) ==
    Len(matches) > 1 /\ Candidate(matches).options.overwrite # "true"

\* typeof match.response === "function" ? match.response(req) : match.response
ResolveResponse(response, r) ==
    IF response.kind = "fn" THEN ResponseFnResult(response.fn, r)
    ELSE response

ResolveResponseThrows(response, r) ==
    response.kind = "fn" /\ ResponseFnThrows(response.fn, r)

\* A slip in BuildStatus: the status of the response is not looked at
BuildStatus_Always200(response) == 200

\* response.status ?? 200
BuildStatus(response) ==
    IF response.status.t = "absent" THEN 200 ELSE response.status.v

\* Object.entries(response.headers).forEach(([k, v]) => res.header(k, v))
BuildHeaders(response) ==
    IF response.headers.t = "absent" THEN <<>> ELSE response.headers.v

\* A slip in BuildBody: only structural bodies are sent
BuildBody_DropsString(response) ==
    IF response.body.t \in {"absent", "str"} THEN NoContent
    ELSE IF response.body.t = "buf"
         THEN Content("{\"type\":\"Buffer\",\"data\":[...]}")
    ELSE Content(JsonStringify([t |-> response.body.jt, v |-> response.body.v]))

\* if (response.body) res.send(string body, or JSON.stringify(body))
BuildBody(response) ==
    IF response.body.t = "absent" THEN NoContent
    ELSE IF response.body.t = "str"
         THEN IF response.body.v = "" THEN NoContent
              ELSE Content(response.body.v)
    ELSE IF response.body.t = "buf"
         THEN Content("{\"type\":\"Buffer\",\"data\":[...]}")
    ELSE Content(JsonStringify([t |-> response.body.jt, v |-> response.body.v]))

Build(response) ==
    HttpResponse(BuildStatus(response), BuildHeaders(response),
                 BuildBody(response))

\* A slip in AmbiguousWarnings: the hint is logged first
AmbiguousWarnings_HintFirst(r) ==
    << <<"use overwrite: true">>, <<"Ambiguous", r.method, r.path>> >>

\* The warnings of the two 404 outcomes
UnmatchedWarnings(r) == << <<"Unmatched", r.method, r.path>> >>
AmbiguousWarnings(r) ==
    << <<"Ambiguous", r.method, r.path>>, <<"use overwrite: true">> >>

\* A slip in CallsAfter: a Call is recorded before the matches are looked at
CallsAfter_RecordsUnmatched(registry, ledger, r) ==
    IF MatchingThrows(registry, r) THEN ledger
    ELSE IF Len(Matches(registry, r)) = 0
    THEN Append(ledger, Call(r, EmptyMatcher))
    ELSE Append(ledger, Call(r, Candidate(Matches(registry, r)).matcher))

\* A slip in CallsAfter: unshift for push
CallsAfter_Unshift(registry, ledger, r) ==
    IF MatchingThrows(registry, r) \/ Len(Matches(registry, r)) = 0
    THEN ledger
    ELSE <<Call(r, Candidate(Matches(registry, r)).matcher)>> \o ledger

\* A slip in CallsAfter: the ledger keeps only the Call of the last request
CallsAfter_KeepsLast(registry, ledger, r) ==
    IF MatchingThrows(registry, r) \/ Len(Matches(registry, r)) = 0
    THEN ledger
    ELSE <<Call(r, Candidate(Matches(registry, r)).matcher)>>

\* A slip in CallsAfter: an ambiguous request is answered before the Call is
\* recorded
CallsAfter_SkipsAmbiguous(registry, ledger, r) ==
    IF MatchingThrows(registry, r) \/ Len(Matches(registry, r)) = 0
    THEN ledger
    ELSE IF IsAmbiguous(Matches(registry, r)) THEN ledger
    ELSE Append(ledger, Call(r, Candidate(Matches(registry, r)).matcher))

\* A slip in CallsAfter: the Call is recorded after the response was built
CallsAfter_AfterResponse(registry, ledger, r) ==
    IF MatchingThrows(registry, r) \/ Len(Matches(registry, r)) = 0
    THEN ledger
    ELSE IF /\ ~IsAmbiguous(Matches(registry, r))
            /\ ResolveResponseThrows(Candidate(Matches(registry, r)).response,
                                     r)
    THEN ledger
    ELSE Append(ledger, Call(r, Candidate(Matches(registry, r)).matcher))

\* The ledger after the handler has run on r
CallsAfter(registry, ledger, r) ==
    IF MatchingThrows(registry, r) \/ Len(Matches(registry, r)) = 0
    THEN ledger
    ELSE Append(ledger, Call(r, Candidate(Matches(registry, r)).matcher))

\* The response the handler sends for r
ResponseFor(registry, r) ==
    LET matches == Matches(registry, r) IN
    IF MatchingThrows(registry, r) THEN InternalServerError
    ELSE IF Len(matches) = 0 THEN NotFound
    ELSE IF IsAmbiguous(matches) THEN NotFound
    ELSE IF ResolveResponseThrows(Candidate(matches).response, r)
         THEN InternalServerError
    ELSE Build(ResolveResponse(Candidate(matches).response, r))

\* The warnings the handler logs for r
WarningsFor(registry, r) ==
    LET matches == Matches(registry, r) IN
    IF MatchingThrows(registry, r) THEN <<>>
    ELSE IF Len(matches) = 0 THEN UnmatchedWarnings(r)
    ELSE IF IsAmbiguous(matches) THEN AmbiguousWarnings(r)
    ELSE <<>>

\* A call of a function the caller supplied: a matcher function or a
\* response function, and the request it was called with
Invocation(kind, name, r) == [kind |-> kind, fn |-> name, request |-> r]

\* matchRequest calls the matcher when it is a function
MatcherInvocations(matcher, r) ==
    IF matcher.kind = "fn" THEN <<Invocation("matcher", matcher.fn, r)>>
    ELSE <<>>

\* filter calls matchRequest on the mocks in registration order, until one
\* throws
RECURSIVE InvokedWhileMatching(_, _)
InvokedWhileMatching(registry, r) ==
    IF registry = <<>> THEN <<>>
    ELSE MatcherInvocations(Head(registry).matcher, r)
         \o (IF matchRequestThrows(Head(registry).matcher, r) THEN <<>>
             ELSE InvokedWhileMatching(Tail(registry), r))

\* match.response(req) when the response is a function
ResponseInvocations(response, r) ==
    IF response.kind = "fn" THEN <<Invocation("response", response.fn, r)>>
    ELSE <<>>

\* A slip in InvokedFor: the responses of all matches are resolved
InvokedFor_Eager(registry, r) ==
    LET matches == Matches(registry, r) IN
    InvokedWhileMatching(registry, r)
    \o (IF MatchingThrows(registry, r) THEN <<>>
        ELSE IF Len(matches) = 0 THEN <<>>
        ELSE IF IsAmbiguous(matches) THEN <<>>
        ELSE (IF Len(matches) > 1
              THEN ResponseInvocations(matches[1].response, r) ELSE <<>>)
             \o ResponseInvocations(Candidate(matches).response, r))

\* The functions the handler invokes for r
InvokedFor(registry, r) ==
    LET matches == Matches(registry, r) IN
    InvokedWhileMatching(registry, r)
    \o (IF MatchingThrows(registry, r) THEN <<>>
        ELSE IF Len(matches) = 0 THEN <<>>
        ELSE IF IsAmbiguous(matches) THEN <<>>
        ELSE ResponseInvocations(Candidate(matches).response, r))

\* this.#app.all("*", (req, res) => ...): one request handled to completion
HandleRequest(r) ==
    /\ Len(calls) < MaxCalls
    /\ calls' = CallsAfter(mocks, calls, r)
    /\ res' = ResponseFor(mocks, r)
    /\ warnings' = WarningsFor(mocks, r)
    /\ invoked' = InvokedFor(mocks, r)
    /\ op' = "request"
    /\ req' = r
    /\ arg' = NoArg
    /\ ret' = Void
    /\ UNCHANGED <<mocks, snap, server, http>>

-----------------------------------------------------------------------------
(* Registration *)

\* The matcher argument of mock(), get(), ...: a string, a RegExp or a Matcher
StringArg(p) == [kind |-> "string", path |-> p, m |-> EmptyMatcher]
RegExpArg(p) == [kind |-> "regexp", path |-> p, m |-> EmptyMatcher]
MatcherArg(m) == [kind |-> "matcher", path |-> <<>>, m |-> m]

\* The response argument: a string, a number or a Response
StringResponse(text) ==
    [kind |-> "string", s |-> text, n |-> 0,
     r |-> ResponseObj(AbsentNum, Absent, AbsentBody)]
NumberResponse(n) ==
    [kind |-> "number", s |-> "", n |-> n,
     r |-> ResponseObj(AbsentNum, Absent, AbsentBody)]
GivenResponse(r) == [kind |-> "response", s |-> "", n |-> 0, r |-> r]

\* The options argument: left out, or a MockOptions object
NoOptions == [t |-> "absent", overwrite |-> "unset"]
GivenOptions(overwrite) == [t |-> "obj", overwrite |-> overwrite]

\* #resolvePathMatcher
resolvePathMatcher(a) ==
    IF a.kind = "string"
    THEN MatcherObj(AbsentStr, PathStr(a.path), Absent, Absent, AbsentBody)
    ELSE IF a.kind = "regexp"
    THEN MatcherObj(AbsentStr, PathRe(a.path), Absent, Absent, AbsentBody)
    ELSE a.m

\* A slip in applyMethod: { method, ...matcher }, where a method the matcher
\* brings wins over the helper's
applyMethod_GivenMethodWins(method, a) ==
    IF a.kind = "string"
    THEN MatcherArg(MatcherObj(Method(method), PathStr(a.path), Absent,
                               Absent, AbsentBody))
    ELSE IF a.kind = "regexp"
    THEN MatcherArg(MatcherObj(Method(method), PathRe(a.path), Absent,
                               Absent, AbsentBody))
    ELSE IF a.m.kind = "fn"
    THEN MatcherArg([EmptyMatcher EXCEPT !.method = Method(method)])
    ELSE IF a.m.method.t = "absent"
    THEN MatcherArg([a.m EXCEPT !.method = Method(method)])
    ELSE MatcherArg(a.m)

\* #applyMethod: { path: matcher, method } or { ...matcher, method }
applyMethod(method, a) ==
    IF a.kind = "string"
    THEN MatcherArg(MatcherObj(Method(method), PathStr(a.path), Absent,
                               Absent, AbsentBody))
    ELSE IF a.kind = "regexp"
    THEN MatcherArg(MatcherObj(Method(method), PathRe(a.path), Absent,
                               Absent, AbsentBody))
    ELSE IF a.m.kind = "fn"
    THEN MatcherArg([EmptyMatcher EXCEPT !.method = Method(method)])
    ELSE MatcherArg([a.m EXCEPT !.method = Method(method)])

\* A slip in StoredResponse: a number is not turned into a status
StoredResponse_NumberDropped(a) ==
    IF a.kind = "string"
    THEN ResponseObj(AbsentNum, Absent, BodyStr(a.s))
    ELSE a.r

\* The response mock() stores for its response argument
StoredResponse(a) ==
    IF a.kind = "string"
    THEN ResponseObj(AbsentNum, Absent, BodyStr(a.s))
    ELSE IF a.kind = "number"
    THEN ResponseObj(Status(a.n), Absent, AbsentBody)
    ELSE a.r

\* options: MockOptions = {}
StoredOptions(o) ==
    IF o.t = "absent" THEN Options("unset") ELSE Options(o.overwrite)

\* A slip in Registered: a mock registered with overwrite: true replaces the
\* mocks registered before it with the same matcher
Registered_OverwriteRemoves(registry, matcherArg, responseArg, optionsArg) ==
    Append(IF StoredOptions(optionsArg).overwrite = "true"
           THEN SelectSeq(registry,
                       LAMBDA m : m.matcher # resolvePathMatcher(matcherArg))
           ELSE registry,
           Mock(resolvePathMatcher(matcherArg), StoredResponse(responseArg),
                StoredOptions(optionsArg)))

\* The registry after this.#mocks.push({ matcher, response, options })
Registered(registry, matcherArg, responseArg, optionsArg) ==
    Append(registry,
           Mock(resolvePathMatcher(matcherArg), StoredResponse(responseArg),
                StoredOptions(optionsArg)))

\* What a registration does besides changing the registry
RegistrationFrame(name) ==
    /\ op' = name
    /\ invoked' = <<>>
    /\ req' = NoReq
    /\ arg' = NoArg
    /\ res' = NoRes
    /\ ret' = This
    /\ warnings' = <<>>
    /\ UNCHANGED <<calls, snap, server, http>>

mock(matcherArg, responseArg, optionsArg) ==
    /\ Len(mocks) < MaxMocks
    /\ mocks' = Registered(mocks, matcherArg, responseArg, optionsArg)
    /\ RegistrationFrame("mock")

\* get(), post(), put(), patch() and delete():
\* this.mock(this.#applyMethod(METHOD, matcher), response, options)
MethodMock(name, method, matcherArg, responseArg, optionsArg) ==
    /\ Len(mocks) < MaxMocks
    /\ mocks' = Registered(mocks, applyMethod(method, matcherArg),
                           responseArg, optionsArg)
    /\ RegistrationFrame(name)

get(matcherArg, responseArg, optionsArg) ==
    MethodMock("get", "GET", matcherArg, responseArg, optionsArg)

post(matcherArg, responseArg, optionsArg) ==
    MethodMock("post", "POST", matcherArg, responseArg, optionsArg)

put(matcherArg, responseArg, optionsArg) ==
    MethodMock("put", "PUT", matcherArg, responseArg, optionsArg)

patch(matcherArg, responseArg, optionsArg) ==
    MethodMock("patch", "PATCH", matcherArg, responseArg, optionsArg)

delete(matcherArg, responseArg, optionsArg) ==
    MethodMock("delete", "DELETE", matcherArg, responseArg, optionsArg)

-----------------------------------------------------------------------------
(* Snapshots: mocks() and calls() *)

\* A slip in Slice: the server's own array is returned
Slice_Alias(of, arr) == [of |-> of, alias |-> TRUE, val |-> <<>>]

\* The array a slice() returns: a new array with the elements of arr.
\* snap.alias says that the caller's array is the server's own array.
Slice(of, arr) == [of |-> of, alias |-> FALSE, val |-> arr]

\* The elements of the array the caller holds
SnapContents ==
    IF snap.alias
    THEN IF snap.of = "mocks" THEN mocks ELSE calls
    ELSE snap.val

\* The caller's array once the server has replaced its array `of` by a new
\* one: it stays the array it was
Detached(of) ==
    IF snap.alias /\ snap.of = of
    THEN [of |-> of, alias |-> FALSE, val |-> SnapContents]
    ELSE snap

SnapshotFrame(name) ==
    /\ op' = name
    /\ invoked' = <<>>
    /\ req' = NoReq
    /\ arg' = NoArg
    /\ res' = NoRes
    /\ ret' = Void
    /\ warnings' = <<>>
    /\ UNCHANGED <<server, http>>

\* mocks(): return this.#mocks.slice()
listMocks ==
    /\ snap' = Slice("mocks", mocks)
    /\ SnapshotFrame("mocks")
    /\ UNCHANGED <<mocks, calls>>

\* A slip in listCalls: the ledger is handed over and started anew
listCalls_Drains ==
    /\ snap' = Slice("calls", calls)
    /\ SnapshotFrame("calls")
    /\ calls' = <<>>
    /\ UNCHANGED mocks

\* calls(): return this.#calls.slice()
listCalls ==
    /\ snap' = Slice("calls", calls)
    /\ SnapshotFrame("calls")
    /\ UNCHANGED <<mocks, calls>>

\* The caller changes the array it was given: snapshot.pop()
PopSnapshot ==
    /\ snap.of # "none"
    /\ Len(SnapContents) > 0
    /\ LET popped == SubSeq(SnapContents, 1, Len(SnapContents) - 1) IN
       IF snap.alias
       THEN /\ mocks' = IF snap.of = "mocks" THEN popped ELSE mocks
            /\ calls' = IF snap.of = "calls" THEN popped ELSE calls
            /\ snap' = snap
       ELSE /\ snap' = [snap EXCEPT !.val = popped]
            /\ UNCHANGED <<mocks, calls>>
    /\ SnapshotFrame("pop")

-----------------------------------------------------------------------------
(* Resets *)

ResetFrame(name) ==
    /\ op' = name
    /\ invoked' = <<>>
    /\ req' = NoReq
    /\ arg' = NoArg
    /\ res' = NoRes
    /\ ret' = Void
    /\ warnings' = <<>>
    /\ UNCHANGED <<server, http>>

\* A slip in resetMocks: the ledger is emptied too
resetMocks_ClearsCalls ==
    /\ mocks' = <<>>
    /\ calls' = <<>>
    /\ snap' = snap
    /\ ResetFrame("resetMocks")

\* this.#mocks = []
resetMocks ==
    /\ mocks' = <<>>
    /\ snap' = Detached("mocks")
    /\ ResetFrame("resetMocks")
    /\ UNCHANGED calls

\* this.#calls = []
resetCalls ==
    /\ calls' = <<>>
    /\ snap' = Detached("calls")
    /\ ResetFrame("resetCalls")
    /\ UNCHANGED mocks

\* A slip in reset: only the registry is emptied
reset_OnlyMocks ==
    /\ mocks' = <<>>
    /\ calls' = calls
    /\ snap' = snap
    /\ ResetFrame("reset")

\* this.resetMocks(); this.resetCalls()
reset ==
    /\ mocks' = <<>>
    /\ calls' = <<>>
    /\ snap' = IF snap.alias
               THEN [of |-> snap.of, alias |-> FALSE, val |-> SnapContents]
               ELSE snap
    /\ ResetFrame("reset")

-----------------------------------------------------------------------------
(* Call queries *)

\* A slip in CalledWith: the matcher stored in the Call is compared
CalledWith_StoredMatcher(ledger, matcherArg) ==
    \E i \in 1..Len(ledger) :
        ledger[i].matcher = resolvePathMatcher(matcherArg)

\* this.#calls.some(({ request }) => matchRequest(resolved, request))
CalledWith(ledger, matcherArg) ==
    \E i \in 1..Len(ledger) :
        matchRequest(resolvePathMatcher(matcherArg), ledger[i].request)

\* A slip in CalledTimes: at least `times` for exactly `times`
CalledTimes_AtLeast(ledger, times, matcherArg) ==
    Len(SelectSeq(ledger,
               LAMBDA c : matchRequest(resolvePathMatcher(matcherArg),
                                       c.request))) >= times

\* this.#calls.filter(({ request }) => matchRequest(resolved, request)).length
\*     === times
CalledTimes(ledger, times, matcherArg) ==
    Len(SelectSeq(ledger,
               LAMBDA c : matchRequest(resolvePathMatcher(matcherArg),
                                       c.request))) = times

\* some calls matchRequest on the recorded requests until one satisfies the
\* matcher or the matcher throws
RECURSIVE InvokedBySome(_, _)
InvokedBySome(matcher, ledger) ==
    IF ledger = <<>> THEN <<>>
    ELSE MatcherInvocations(matcher, Head(ledger).request)
         \o (IF \/ matchRequestThrows(matcher, Head(ledger).request)
                \/ matchRequest(matcher, Head(ledger).request)
             THEN <<>>
             ELSE InvokedBySome(matcher, Tail(ledger)))

\* filter calls matchRequest on every recorded request, until the matcher
\* throws
RECURSIVE InvokedByFilter(_, _)
InvokedByFilter(matcher, ledger) ==
    IF ledger = <<>> THEN <<>>
    ELSE MatcherInvocations(matcher, Head(ledger).request)
         \o (IF matchRequestThrows(matcher, Head(ledger).request) THEN <<>>
             ELSE InvokedByFilter(matcher, Tail(ledger)))

QueryFrame(name, matcherArg, times) ==
    /\ op' = name
    /\ req' = NoReq
    /\ arg' = [matcher |-> resolvePathMatcher(matcherArg), times |-> times]
    /\ res' = NoRes
    /\ warnings' = <<>>
    /\ UNCHANGED <<mocks, calls, snap, server, http>>

hasBeenCalledWith(matcherArg) ==
    /\ ret' = Bool(CalledWith(calls, matcherArg))
    /\ invoked' = InvokedBySome(resolvePathMatcher(matcherArg), calls)
    /\ QueryFrame("hasBeenCalledWith", matcherArg, 0)

hasBeenCalledTimes(times, matcherArg) ==
    /\ ret' = Bool(CalledTimes(calls, times, matcherArg))
    /\ invoked' = InvokedByFilter(resolvePathMatcher(matcherArg), calls)
    /\ QueryFrame("hasBeenCalledTimes", matcherArg, times)

-----------------------------------------------------------------------------
(* Lifecycle: start() and stop() *)

\* The http.Server: state is "none" before this.#app.listen() has made it,
\* "binding" until its listen callback fires, then "listening", and "closed"
\* once close() was called on it; listenPending says that the callback given
\* to listen() has not fired, closePending counts the callbacks given to
\* close() that have not fired.
Http(state, listenPending, closePending) ==
    [state |-> state, listenPending |-> listenPending,
     closePending |-> closePending]

NoHttp == Http("none", FALSE, 0)

\* The promise start() or stop() returns, or the one a callback resolves
Promise(state) == [t |-> state, b |-> FALSE]

LifecycleFrame(name) ==
    /\ op' = name
    /\ invoked' = <<>>
    /\ req' = NoReq
    /\ arg' = NoArg
    /\ res' = NoRes
    /\ UNCHANGED <<mocks, calls, snap>>

\* start()
start ==
    /\ IF server # "null"
       THEN /\ warnings' = << <<"Server is already running">> >>
            /\ ret' = Promise("resolved")
            /\ UNCHANGED <<server, http>>
       ELSE /\ server' = "server"
            /\ http' = Http("binding", TRUE, 0)
            /\ ret' = Promise("pending")
            /\ warnings' = <<>>
    /\ LifecycleFrame("start")

\* The callback given to this.#app.listen(port, resolve) fires: the server
\* listens and the promise of start() resolves.  A server closed while it
\* was binding does not emit "listening".
ListenCallback ==
    /\ http.state = "binding"
    /\ http.listenPending
    /\ http' = [http EXCEPT !.state = "listening", !.listenPending = FALSE]
    /\ ret' = Promise("resolved")
    /\ warnings' = <<>>
    /\ UNCHANGED server
    /\ LifecycleFrame("listening")

\* stop(): server.close(() => resolve()) on this.#server when it is set
stop ==
    /\ IF server # "null"
       THEN /\ http.closePending < MaxClosing
            /\ http' = [http EXCEPT !.state = "closed",
                                    !.closePending = @ + 1]
            /\ ret' = Promise("pending")
            /\ warnings' = <<>>
            /\ UNCHANGED server
       ELSE /\ warnings' = << <<"No server is running">> >>
            /\ ret' = Promise("resolved")
            /\ UNCHANGED <<server, http>>
    /\ LifecycleFrame("stop")

\* A callback given to server.close() fires (with an error when the server
\* was not running, which () => resolve() ignores): a promise of stop()
\* resolves
CloseCallback ==
    /\ http.closePending > 0
    /\ http' = [http EXCEPT !.closePending = @ - 1]
    /\ ret' = Promise("resolved")
    /\ warnings' = <<>>
    /\ UNCHANGED server
    /\ LifecycleFrame("closed")

-----------------------------------------------------------------------------
(* Inputs *)

PathA == <<"/", "a">>
PathB == <<"/", "b">>

GetA == Request("GET", PathA, <<>>, <<>>, NoBody)
PostA ==
    Request("POST", PathA, <<>>, <<[k |-> "x-id", v |-> StrVal("7")]>>,
            Buffer("{\"a\":1}"))
GetB == Request("GET", PathB, <<[k |-> "q", v |-> StrVal("1")]>>, <<>>, NoBody)

Requests == {GetA, PostA, GetB}

Input(matcherArg, responseArg, optionsArg) ==
    [matcher |-> matcherArg, response |-> responseArg, options |-> optionsArg]

MethodGet ==
    MatcherObj(Method("get"), Absent, Absent, Absent, AbsentBody)
Created ==
    ResponseObj(Status(201), Entries(<<[k |-> "x-r", v |-> "1"]>>),
                BodyJson([t |-> "obj", v |-> "a:1"]))

\* What the model registers with mock()
MockInputs ==
    { Input(StringArg(PathA), StringResponse("A"), NoOptions),
      Input(MatcherArg(MethodGet), GivenResponse(Created),
            GivenOptions("true")),
      Input(MatcherArg(MatcherFn("isPost")), GivenResponse(ResponseFn("echo")),
            GivenOptions("false")) }

\* What the model asks the call queries
QueryInputs == { StringArg(PathA) }

-----------------------------------------------------------------------------
(* The server with mock(), requests, resets and call queries *)

Init ==
    /\ mocks = <<>>
    /\ calls = <<>>
    /\ server = "null"
    /\ http = NoHttp
    /\ snap = NoSnap
    /\ op = "new"
    /\ req = NoReq
    /\ arg = NoArg
    /\ res = NoRes
    /\ ret = Void
    /\ warnings = <<>>
    /\ invoked = <<>>

Next ==
    \/ \E i \in MockInputs : mock(i.matcher, i.response, i.options)
    \/ \E r \in Requests : HandleRequest(r)
    \/ resetMocks
    \/ resetCalls
    \/ reset
    \/ \E m \in QueryInputs : hasBeenCalledWith(m)
    \/ \E m \in QueryInputs : \E n \in 0..MaxCalls : hasBeenCalledTimes(n, m)

Spec == Init /\ [][Next]_vars

-----------------------------------------------------------------------------
(* Resolution of a request: C1 - C4 *)

\* The mocks of a registry whose matcher accepts r, by position
MatchingIndexes(registry, r) ==
    {i \in 1..Len(registry) : matchRequest(registry[i].matcher, r)}

\* The last position of a non-empty set of positions
LastIndex(S) == CHOOSE i \in S : \A j \in S : j <= i

\* C1: when a request matches exactly one registered mock, the server answers
\* with that mock's response (status, or 200 when it sets none; its headers;
\* its body, a string verbatim and a structural value as JSON; for a response
\* function, those of the object it returns for the request) and the ledger
\* grows by exactly one Call, made of the request and that mock's matcher.
C1_SingleMatchServed ==
    [][op' = "request" =>
        \A i \in 1..Len(mocks) :
            MatchingIndexes(mocks, req') = {i} =>
                LET given == mocks[i].response
                    obj == IF given.kind = "fn"
                           THEN ResponseFnResult(given.fn, req')
                           ELSE given
                IN  /\ res'.status =
                         (IF obj.status.t = "num" THEN obj.status.v ELSE 200)
                    /\ res'.headers =
                         (IF obj.headers.t = "obj" THEN obj.headers.v ELSE <<>>)
                    /\ obj.body.t = "absent" => res'.body = NoContent
                    /\ obj.body.t = "str" /\ obj.body.v # "" =>
                         res'.body = Content(obj.body.v)
                    /\ obj.body.t = "json" =>
                         /\ res'.body.t = "text"
                         /\ JsonParse(res'.body.v).ok
                         /\ JsonParse(res'.body.v).val =
                                [t |-> obj.body.jt, v |-> obj.body.v]
                    /\ calls' = Append(calls, Call(req', mocks[i].matcher))
    ]_vars

\* C1 happens: a registry of several mocks, one of which matches the request,
\* which was served with a status the mock set itself
C1_Witness ==
    /\ op = "request"
    /\ Len(mocks) >= 2
    /\ Cardinality(MatchingIndexes(mocks, req)) = 1
    /\ res.status = 201
    /\ res.body = Content("{\"a\":1}")
    /\ calls # <<>>

\* C2: when two or more registered mocks match a request and none of them has
\* overwrite set to true, the answer is 404 and the ledger still grows by
\* exactly one Call, whose matcher is that of the last-registered matching mock.
C2_AmbiguousIs404AndRecorded ==
    [][op' = "request" =>
        LET S == MatchingIndexes(mocks, req') IN
        (Cardinality(S) >= 2
            /\ \A i \in S : mocks[i].options.overwrite # "true") =>
                /\ res'.status = 404
                /\ res'.body = NoContent
                /\ calls' = Append(calls, Call(req', mocks[LastIndex(S)].matcher))
    ]_vars

\* C2 happens: two matching mocks with different matchers, none overwriting
C2_Witness ==
    /\ op = "request"
    /\ Cardinality(MatchingIndexes(mocks, req)) >= 2
    /\ \A i \in MatchingIndexes(mocks, req) : mocks[i].options.overwrite # "true"
    /\ \E i, j \in MatchingIndexes(mocks, req) :
          mocks[i].matcher # mocks[j].matcher
    /\ res.status = 404
    /\ calls # <<>>

\* C3: when two or more registered mocks match a request and the
\* last-registered of them has overwrite: true, the answer is that last mock's
\* response and not the 404 of an ambiguous request, however many earlier
\* mocks match.
C3_OverwriteServesLast ==
    [][op' = "request" =>
        LET S == MatchingIndexes(mocks, req') IN
        (Cardinality(S) >= 2
            /\ mocks[LastIndex(S)].options.overwrite = "true") =>
                LET given == mocks[LastIndex(S)].response
                    obj == IF given.kind = "fn"
                           THEN ResponseFnResult(given.fn, req')
                           ELSE given
                IN  /\ res'.status =
                         (IF obj.status.t = "num" THEN obj.status.v ELSE 200)
                    /\ res'.headers =
                         (IF obj.headers.t = "obj" THEN obj.headers.v ELSE <<>>)
                    /\ obj.body.t = "str" /\ obj.body.v # "" =>
                         res'.body = Content(obj.body.v)
                    /\ obj.body.t = "json" =>
                         /\ res'.body.t = "text"
                         /\ JsonParse(res'.body.v).val =
                                [t |-> obj.body.jt, v |-> obj.body.v]
                    /\ warnings' = <<>>
    ]_vars

\* C3 happens: three matching mocks, the last of them overwriting, served
C3_Witness ==
    /\ op = "request"
    /\ Cardinality(MatchingIndexes(mocks, req)) = 3
    /\ mocks[LastIndex(MatchingIndexes(mocks, req))].options.overwrite = "true"
    /\ res.status = 201

\* C4: when no registered mock matches a request, the empty registry
\* included, the answer is 404 and the ledger is left as it was.
C4_UnmatchedIs404NotRecorded ==
    [][op' = "request" /\ MatchingIndexes(mocks, req') = {} =>
        /\ res'.status = 404
        /\ res'.body = NoContent
        /\ calls' = calls
    ]_vars

\* C4 happens: a request no mock of a non-empty registry matches, with calls
\* already in the ledger
C4_Witness ==
    /\ op = "request"
    /\ mocks # <<>>
    /\ MatchingIndexes(mocks, req) = {}
    /\ res.status = 404
    /\ calls # <<>>

-----------------------------------------------------------------------------
(* Resets, call queries and the ledger: C5 - C8 *)

\* C5: resetMocks() empties the registry and leaves the ledger as it was,
\* resetCalls() empties the ledger and leaves the registry as it was, and
\* reset() empties both.
C5_ResetsAreIndependent ==
    [][/\ op' = "resetMocks" => mocks' = <<>> /\ calls' = calls
       /\ op' = "resetCalls" => calls' = <<>> /\ mocks' = mocks
       /\ op' = "reset" => mocks' = <<>> /\ calls' = <<>>
    ]_vars

\* C5 happens: resetMocks() has emptied the registry and the ledger still has
\* its calls
C5_Witness ==
    /\ op = "resetMocks"
    /\ mocks = <<>>
    /\ Len(calls) = MaxCalls

\* C5 happens for resetCalls(): the registry still has its mocks
C5_WitnessCalls ==
    /\ op = "resetCalls"
    /\ calls = <<>>
    /\ Len(mocks) = MaxMocks

\* The calls of the ledger whose request satisfies the matcher, by position
SatisfyingCalls(matcher) ==
    {i \in 1..Len(calls) : matchRequest(matcher, calls[i].request)}

\* C6: hasBeenCalledWith(m) returns true iff the request of at least one
\* recorded Call satisfies m, hasBeenCalledTimes(n, m) returns true iff the
\* requests of exactly n recorded Calls satisfy m (the matcher stored in the
\* Call plays no part), and hasBeenCalledWith(m) is the negation of
\* hasBeenCalledTimes(0, m).
C6_QueriesCountRequests ==
    /\ op = "hasBeenCalledWith" =>
          ret = Bool(Cardinality(SatisfyingCalls(arg.matcher)) >= 1)
    /\ op = "hasBeenCalledTimes" =>
          ret = Bool(Cardinality(SatisfyingCalls(arg.matcher)) = arg.times)
    /\ \A m \in QueryInputs :
          CalledWith(calls, m) = ~CalledTimes(calls, 0, m)

\* C6 happens: of two recorded calls exactly one satisfies the queried matcher,
\* and the matcher stored with it is another matcher
C6_Witness ==
    /\ op = "hasBeenCalledTimes"
    /\ arg.times = 1
    /\ ret = Bool(TRUE)
    /\ Len(calls) = 2
    /\ \A i \in SatisfyingCalls(arg.matcher) : calls[i].matcher # arg.matcher

\* C7 as claimed: hasBeenCalledTimes(0, m) is true before a request matching m
\* is received and false once exactly one such request has been received.
C7_FalseAfterOneMatchingRequest ==
    [][\A m \in QueryInputs :
        (/\ CalledTimes(calls, 0, m)
         /\ op' = "request"
         /\ matchRequest(resolvePathMatcher(m), req'))
            => ~CalledTimes(calls', 0, m)
    ]_vars

\* C7 as amended: hasBeenCalledTimes(0, m) is true while the ledger holds no
\* Call whose request satisfies m (so with an empty ledger), stays true through
\* every operation but a request that satisfies m, and after one request that
\* satisfies m it is false iff a registered mock matched that request: a
\* request that no mock matches is answered 404 and not recorded.
C7_FalseAfterOneRecordedRequest ==
    [][\A m \in QueryInputs :
        /\ calls' = <<>> => CalledTimes(calls', 0, m)
        /\ CalledTimes(calls, 0, m) =>
              IF op' = "request" /\ matchRequest(resolvePathMatcher(m), req')
              THEN CalledTimes(calls', 0, m)
                      = (MatchingIndexes(mocks, req') = {})
              ELSE CalledTimes(calls', 0, m)
    ]_vars

\* C7 happens: one request satisfying the queried matcher has been recorded and
\* hasBeenCalledTimes(0, m) has answered false
C7_Witness ==
    /\ op = "hasBeenCalledTimes"
    /\ arg.times = 0
    /\ ret = Bool(FALSE)
    /\ Cardinality(SatisfyingCalls(arg.matcher)) = 1

\* C8: the ledger is append-only: an operation other than resetCalls() and
\* reset() leaves the recorded calls as a prefix of the new ledger, which a
\* handled request extends by at most one Call at the end and every other
\* operation leaves as it was.
C8_LedgerAppendOnly ==
    [][op' \notin {"resetCalls", "reset"} =>
        \/ calls' = calls
        \/ /\ op' = "request"
           /\ Len(calls') = Len(calls) + 1
           /\ SubSeq(calls', 1, Len(calls)) = calls
           /\ calls'[Len(calls')].request = req'
    ]_vars

\* C8 happens: a request has been appended after an earlier, different call
C8_Witness ==
    /\ op = "request"
    /\ Len(calls) >= 2
    /\ calls[Len(calls)].request = req
    /\ calls[1] # calls[Len(calls)]

-----------------------------------------------------------------------------
(* The server with every way of registering a mock: C9 *)

\* What the model registers with mock() next to the method-scoped helpers
RegMockInputs ==
    { Input(MatcherArg(MethodGet), GivenResponse(Created),
            GivenOptions("true")) }

\* What the model registers with get(), post(), put(), patch() and delete()
HelperInputs ==
    { Input(StringArg(PathA), NumberResponse(204), GivenOptions("true")) }

NextReg ==
    \/ \E i \in RegMockInputs : mock(i.matcher, i.response, i.options)
    \/ \E i \in HelperInputs : get(i.matcher, i.response, i.options)
    \/ \E i \in HelperInputs : post(i.matcher, i.response, i.options)
    \/ \E i \in HelperInputs : put(i.matcher, i.response, i.options)
    \/ \E i \in HelperInputs : patch(i.matcher, i.response, i.options)
    \/ \E i \in HelperInputs : delete(i.matcher, i.response, i.options)
    \/ HandleRequest(GetA)
    \/ resetMocks
    \/ resetCalls
    \/ reset

SpecReg == Init /\ [][NextReg]_vars

Registrations == {"mock", "get", "post", "put", "patch", "delete"}

\* C9: the registry only appends or clears: mock(), get(), post(), put(),
\* patch() and delete() each add exactly one Mock after the mocks registered
\* before, which stay as they were and in their order (also when the new mock
\* has overwrite: true), and no operation but resetMocks() and reset() changes
\* the registry otherwise.
C9_RegistryAppendOnly ==
    [][/\ op' \in Registrations =>
            /\ Len(mocks') = Len(mocks) + 1
            /\ SubSeq(mocks', 1, Len(mocks)) = mocks
       /\ op' \notin Registrations \cup {"resetMocks", "reset"} =>
            mocks' = mocks
    ]_vars

\* C9 happens: a mock with overwrite: true has been registered after a mock
\* with the same matcher, which is still there
C9_Witness ==
    /\ op \in Registrations \ {"mock"}
    /\ Len(mocks) = MaxMocks
    /\ mocks[Len(mocks)].options.overwrite = "true"
    /\ \E i \in 1..(Len(mocks) - 1) :
          mocks[i].matcher = mocks[Len(mocks)].matcher

-----------------------------------------------------------------------------
(* The server and a caller that keeps what mocks() and calls() return: C10 *)

SnapMockInputs ==
    { Input(StringArg(PathA), StringResponse("A"), NoOptions),
      Input(MatcherArg(MethodGet), GivenResponse(Created),
            GivenOptions("true")) }

NextSnap ==
    \/ \E i \in SnapMockInputs : mock(i.matcher, i.response, i.options)
    \/ HandleRequest(GetA)
    \/ resetMocks
    \/ resetCalls
    \/ reset
    \/ listMocks
    \/ listCalls
    \/ PopSnapshot

SpecSnap == Init /\ [][NextSnap]_vars

\* C10: what mocks() and calls() return is a copy: it has the elements the
\* registry (the ledger) had when it was returned, it keeps its length and its
\* elements through every later registration, request and reset, and a change
\* the caller makes to it changes neither the registry nor the ledger.
C10_SnapshotsAreIndependent ==
    [][/\ op' = "mocks" => SnapContents' = mocks /\ mocks' = mocks
       /\ op' = "calls" => SnapContents' = calls /\ calls' = calls
       /\ op' \notin {"mocks", "calls", "pop"} => SnapContents' = SnapContents
       /\ op' = "pop" =>
            /\ mocks' = mocks
            /\ calls' = calls
            /\ Len(SnapContents') = Len(SnapContents) - 1
    ]_vars

\* C10 happens: the registry has been emptied and the array mocks() returned
\* before still has its mocks
C10_Witness ==
    /\ op = "resetMocks"
    /\ snap.of = "mocks"
    /\ Len(SnapContents) = MaxMocks
    /\ mocks = <<>>

\* C10 happens: the caller has removed an element of the array calls()
\* returned and the ledger still has it
C10_WitnessPop ==
    /\ op = "pop"
    /\ snap.of = "calls"
    /\ SnapContents = <<>>
    /\ Len(calls) = MaxCalls

-----------------------------------------------------------------------------
(* The server with its listener: C11 *)

LifeMockInputs ==
    { Input(StringArg(PathA), StringResponse("A"), NoOptions) }

\* Requests reach the handler while the http.Server listens
NextLife ==
    \/ start
    \/ ListenCallback
    \/ stop
    \/ CloseCallback
    \/ \E i \in LifeMockInputs : mock(i.matcher, i.response, i.options)
    \/ \E r \in {GetA, GetB} : http.state = "listening" /\ HandleRequest(r)
    \/ reset

SpecLife == Init /\ [][NextLife]_vars

\* C11: lifecycle misuse is a logged no-op: start() on a server that is
\* running logs "Server is already running" and changes nothing, and stop() on
\* a server that is not running, because it was never started or because it
\* was stopped, logs "No server is running" and changes nothing.
C11_LifecycleMisuseIsLoggedNoOp ==
    [][/\ op' = "start" /\ http.state = "listening" =>
            /\ warnings' = << <<"Server is already running">> >>
            /\ server' = server
            /\ http' = http
       /\ op' = "stop" /\ http.state \in {"none", "closed"} =>
            /\ warnings' = << <<"No server is running">> >>
            /\ server' = server
            /\ http' = http
    ]_vars

-----------------------------------------------------------------------------
(* reset(): C12 *)

\* C12: reset() puts the registry and the ledger back to their initial state:
\* after it both are empty and the call queries find no call; while no mock
\* has been registered since, the registry stays empty, every request is
\* answered 404 and is not recorded, and the queries keep finding no call.
C12_ResetRestoresInitialState ==
    [][/\ op' = "reset" =>
            /\ mocks' = <<>>
            /\ calls' = <<>>
            /\ \A m \in QueryInputs :
                  ~CalledWith(calls', m) /\ CalledTimes(calls', 0, m)
       /\ mocks = <<>> /\ op' \notin Registrations => mocks' = <<>>
       /\ mocks = <<>> /\ op' = "request" =>
            /\ res'.status = 404
            /\ res'.body = NoContent
            /\ calls' = calls
       /\ calls = <<>> /\ op' = "hasBeenCalledWith" => ret' = Bool(FALSE)
       /\ calls = <<>> /\ op' = "hasBeenCalledTimes" =>
            ret' = Bool(arg'.times = 0)
    ]_vars

\* C12 happens: reset() has run and left both stores empty
C12_Witness ==
    /\ op = "reset"
    /\ mocks = <<>>
    /\ calls = <<>>

\* C12 happens: a request that the registry served before finds it empty
C12_WitnessRequest ==
    /\ op = "request"
    /\ req = GetA
    /\ mocks = <<>>
    /\ calls = <<>>
    /\ res = NotFound

-----------------------------------------------------------------------------
(* The matcher evaluator, applied to a matcher and a request *)

\* the five fields a matcher can set, and the values a request can have
MatcherMethods ==
    { AbsentStr, Method("GET"), Method("get"), Method("POST"), Method("") }
MatcherPaths ==
    { Absent, PathStr(PathA), PathStr(<<"/">>), PathStr(<<>>),
      PathRe(<<"a">>), PathRe(<<"/", "b">>), PathRe(<<>>) }
MatcherQueries ==
    { Absent, Entries(<<>>),
      Entries(<<[k |-> "q", v |-> StrVal("1")]>>),
      Entries(<<[k |-> "q", v |-> NumVal("1")]>>),
      Entries(<<[k |-> "q", v |-> ArrVal(<<"1", "2">>)]>>),
      Entries(<<[k |-> "q", v |-> Undef]>>),
      Entries(<<[k |-> "q", v |-> StrVal("1")], [k |-> "r", v |-> Undef]>>) }
MatcherHeaders ==
    { Absent, Entries(<<>>),
      Entries(<<[k |-> "x-id", v |-> StrVal("7")]>>),
      Entries(<<[k |-> "X-Id", v |-> StrVal("7")]>>),
      Entries(<<[k |-> "X-ID", v |-> StrVal("8")]>>),
      Entries(<<[k |-> "X-Id", v |-> Undef]>>) }
MatcherBodies ==
    { AbsentBody, BodyStr("{\"a\":1}"), BodyStr("hello"), BodyStr(""),
      BodyJson([t |-> "obj", v |-> "a:1"]),
      BodyJson([t |-> "obj", v |-> "a:2"]) }

RequestMethods == { "GET", "POST" }
RequestPaths == { PathA, PathB, <<"/">>, <<"/", "a", "b">> }
RequestQueries ==
    { <<>>,
      <<[k |-> "q", v |-> StrVal("1")]>>,
      <<[k |-> "q", v |-> ArrVal(<<"1", "2">>)]>>,
      <<[k |-> "q", v |-> ArrVal(<<"2", "1">>)]>>,
      <<[k |-> "r", v |-> StrVal("2")]>>,
      <<[k |-> "q", v |-> StrVal("1")], [k |-> "r", v |-> StrVal("2")]>> }
RequestHeaders ==
    { <<>>,
      <<[k |-> "x-id", v |-> StrVal("7")]>>,
      <<[k |-> "x-id", v |-> StrVal("8")]>>,
      <<[k |-> "accept", v |-> StrVal("*/*")]>>,
      <<[k |-> "accept", v |-> StrVal("*/*")],
        [k |-> "x-id", v |-> StrVal("7")]>> }
RequestBodies ==
    { NoBody, Buffer("{\"a\":1}"), Buffer("{ \"a\": 1 }"), Buffer("{\"a\":2}"),
      Buffer("hello"), Buffer("{\"a\":"), Buffer("1") }

\* matchers that set several fields, and requests that differ in several
FullMatchers ==
    { MatcherObj(m, p, q, h, b) :
        m \in { AbsentStr, Method("post"), Method("") },
        p \in { Absent, PathStr(PathA) },
        q \in { Absent, Entries(<<[k |-> "q", v |-> StrVal("1")]>>) },
        h \in { Absent, Entries(<<[k |-> "X-Id", v |-> StrVal("7")]>>) },
        b \in { AbsentBody, BodyJson([t |-> "obj", v |-> "a:1"]) } }
FunctionMatchers == { MatcherFn("isPost"), MatcherFn("always") }
FullRequests ==
    { Request(m, p, q, h, b) :
        m \in RequestMethods,
        p \in { PathA, PathB },
        q \in { <<>>, <<[k |-> "q", v |-> StrVal("1")]>> },
        h \in { <<>>, <<[k |-> "x-id", v |-> StrVal("7")]>> },
        b \in { NoBody, Buffer("{ \"a\": 1 }") } }

\* The matcher and the request the evaluator is applied to
EvaluatorInput(matcher, r) == [matcher |-> matcher, request |-> r]

EvaluatorInputs ==
    { EvaluatorInput(MatcherObj(m, Absent, Absent, Absent, AbsentBody),
                     Request(rm, PathA, <<>>, <<>>, NoBody)) :
        m \in MatcherMethods, rm \in RequestMethods }
    \cup
    { EvaluatorInput(MatcherObj(AbsentStr, p, Absent, Absent, AbsentBody),
                     Request("GET", rp, <<>>, <<>>, NoBody)) :
        p \in MatcherPaths, rp \in RequestPaths }
    \cup
    { EvaluatorInput(MatcherObj(AbsentStr, Absent, q, Absent, AbsentBody),
                     Request("GET", PathA, rq, <<>>, NoBody)) :
        q \in MatcherQueries, rq \in RequestQueries }
    \cup
    { EvaluatorInput(MatcherObj(AbsentStr, Absent, Absent, h, AbsentBody),
                     Request("GET", PathA, <<>>, rh, NoBody)) :
        h \in MatcherHeaders, rh \in RequestHeaders }
    \cup
    { EvaluatorInput(MatcherObj(AbsentStr, Absent, Absent, Absent, b),
                     Request("POST", PathA, <<>>, <<>>, rb)) :
        b \in MatcherBodies, rb \in RequestBodies }
    \cup
    { EvaluatorInput(m, r) :
        m \in FullMatchers \cup FunctionMatchers, r \in FullRequests }

\* A matcher and a request are given; nothing has been evaluated yet
InitMatch ==
    /\ \E i \in EvaluatorInputs :
          /\ arg = [matcher |-> i.matcher, times |-> 0]
          /\ req = i.request
    /\ mocks = <<>>
    /\ calls = <<>>
    /\ server = "null"
    /\ http = NoHttp
    /\ snap = NoSnap
    /\ op = "new"
    /\ res = NoRes
    /\ ret = Void
    /\ warnings = <<>>
    /\ invoked = <<>>

\* What applying the evaluator leaves alone
EvaluatorFrame ==
    UNCHANGED <<mocks, calls, server, http, snap, arg, req, res, warnings>>

EvalMethod ==
    /\ arg.matcher.kind = "obj"
    /\ op' = "matchMethod"
    /\ ret' = Bool(matchMethod(arg.matcher, req))
    /\ invoked' = <<>>
    /\ EvaluatorFrame

EvalPath ==
    /\ arg.matcher.kind = "obj"
    /\ op' = "matchPath"
    /\ ret' = Bool(matchPath(arg.matcher, req))
    /\ invoked' = <<>>
    /\ EvaluatorFrame

EvalQuery ==
    /\ arg.matcher.kind = "obj"
    /\ op' = "matchQuery"
    /\ ret' = Bool(matchQuery(arg.matcher, req))
    /\ invoked' = <<>>
    /\ EvaluatorFrame

EvalHeaders ==
    /\ arg.matcher.kind = "obj"
    /\ op' = "matchHeaders"
    /\ ret' = Bool(matchHeaders(arg.matcher, req))
    /\ invoked' = <<>>
    /\ EvaluatorFrame

EvalBody ==
    /\ arg.matcher.kind = "obj"
    /\ op' = "matchBody"
    /\ ret' = Bool(matchBody(arg.matcher, req))
    /\ invoked' = <<>>
    /\ EvaluatorFrame

EvalRequest ==
    /\ op' = "matchRequest"
    /\ ret' = Bool(matchRequest(arg.matcher, req))
    /\ invoked' = MatcherInvocations(arg.matcher, req)
    /\ EvaluatorFrame

\* the names the evaluations leave in op
Evaluations ==
    { "matchMethod", "matchPath", "matchQuery", "matchHeaders", "matchBody",
      "matchRequest" }

NextMatch ==
    \/ EvalMethod
    \/ EvalPath
    \/ EvalQuery
    \/ EvalHeaders
    \/ EvalBody
    \/ EvalRequest

SpecMatch == InitMatch /\ [][NextMatch]_vars

-----------------------------------------------------------------------------
(* The matcher evaluator: C13 to C18 *)

\* C13: a MatcherObj with no field set matches every request, and each
\* sub-predicate is true whenever its own field is not set.
C13_EmptyMatcherMatchesAll ==
    /\ op \in Evaluations /\ arg.matcher = EmptyMatcher => ret = Bool(TRUE)
    /\ op = "matchMethod" /\ arg.matcher.method = AbsentStr => ret = Bool(TRUE)
    /\ op = "matchPath" /\ arg.matcher.path = Absent => ret = Bool(TRUE)
    /\ op = "matchQuery" /\ arg.matcher.query = Absent => ret = Bool(TRUE)
    /\ op = "matchHeaders" /\ arg.matcher.headers = Absent => ret = Bool(TRUE)
    /\ op = "matchBody" /\ arg.matcher.body = AbsentBody => ret = Bool(TRUE)

\* C13 happens: the empty matcher is matched against a request that has a
\* query, a header and a body
C13_Witness ==
    /\ op = "matchRequest"
    /\ arg.matcher = EmptyMatcher
    /\ req.method = "POST"
    /\ req.query # <<>>
    /\ req.headers # <<>>
    /\ req.body # NoBody
    /\ ret = Bool(TRUE)

\* C14: the path predicate is true without a path; with a string path it is
\* true iff the request path equals that string, whatever the string; with a
\* regular expression iff the expression matches somewhere in the request path.
C14_PathPredicate ==
    op = "matchPath" =>
        ret = Bool(CASE arg.matcher.path.t = "absent" -> TRUE
                     [] arg.matcher.path.t = "str" ->
                            req.path = arg.matcher.path.v
                     [] arg.matcher.path.t = "re" ->
                            IsSubstring(arg.matcher.path.v, req.path))

\* C15: the query predicate checks the matcher's keys only: a key set to
\* undefined wants the request not to provide the parameter, any other key
\* wants the request's value to have the same type and the same content in
\* the same order; what else the request provides is ignored.
C15_QueryPredicate ==
    op = "matchQuery" /\ arg.matcher.query.t # "absent" =>
        ret = Bool(\A i \in 1..Len(arg.matcher.query.v) :
                      IF arg.matcher.query.v[i].v = Undef
                      THEN \A j \in 1..Len(req.query) :
                              req.query[j].k # arg.matcher.query.v[i].k
                      ELSE \E j \in 1..Len(req.query) :
                              req.query[j] = arg.matcher.query.v[i])

\* C15 happens: a parameter is asserted absent while another, unmentioned
\* one is provided
C15_Witness ==
    /\ op = "matchQuery"
    /\ arg.matcher.query = Entries(<<[k |-> "q", v |-> Undef]>>)
    /\ req.query = <<[k |-> "r", v |-> StrVal("2")]>>
    /\ ret = Bool(TRUE)

\* C15 happens: the same elements in another order are not equal
C15_WitnessOrder ==
    /\ op = "matchQuery"
    /\ arg.matcher.query = Entries(<<[k |-> "q", v |-> ArrVal(<<"1", "2">>)]>>)
    /\ req.query = <<[k |-> "q", v |-> ArrVal(<<"2", "1">>)]>>
    /\ ret = Bool(FALSE)

\* C16: the headers predicate checks the matcher's names only, whatever
\* their case: a name set to undefined wants the request not to carry the
\* header, any other name wants the request's value to be the same string;
\* what else the request carries is ignored.
C16_HeadersPredicate ==
    op = "matchHeaders" /\ arg.matcher.headers.t # "absent" =>
        ret = Bool(\A i \in 1..Len(arg.matcher.headers.v) :
                      IF arg.matcher.headers.v[i].v = Undef
                      THEN \A j \in 1..Len(req.headers) :
                              ToLowerCase(req.headers[j].k)
                                  # ToLowerCase(arg.matcher.headers.v[i].k)
                      ELSE \E j \in 1..Len(req.headers) :
                              /\ ToLowerCase(req.headers[j].k)
                                    = ToLowerCase(arg.matcher.headers.v[i].k)
                              /\ req.headers[j].v = arg.matcher.headers.v[i].v)

\* C16 happens: a name in another case matches, next to an unmentioned header
C16_Witness ==
    /\ op = "matchHeaders"
    /\ arg.matcher.headers = Entries(<<[k |-> "X-Id", v |-> StrVal("7")]>>)
    /\ Len(req.headers) = 2
    /\ ret = Bool(TRUE)

\* C16 happens: a header asserted absent is carried
C16_WitnessUndefined ==
    /\ op = "matchHeaders"
    /\ arg.matcher.headers = Entries(<<[k |-> "X-Id", v |-> Undef]>>)
    /\ req.headers = <<[k |-> "x-id", v |-> StrVal("7")]>>
    /\ ret = Bool(FALSE)

\* C17: the body predicate is true without a body in the matcher; with one
\* it is false for a request without a body; a string body wants the request
\* body text to be that string; a structural body wants the text to parse as
\* JSON to a value of the same type and content; text that does not parse is
\* a non-match, and the predicate always returns a boolean.
C17_BodyPredicate ==
    op = "matchBody" =>
        /\ ret.t = "bool"
        /\ ret.b = IF arg.matcher.body.t = "absent" THEN TRUE
                   ELSE IF req.body.t = "absent" THEN FALSE
                   ELSE IF arg.matcher.body.t = "str"
                        THEN req.body.v = arg.matcher.body.v
                   ELSE /\ JsonParse(req.body.v).ok
                        /\ JsonParse(req.body.v).val
                              = [t |-> arg.matcher.body.jt,
                                 v |-> arg.matcher.body.v]

\* C17 happens: a structural body matches text that is spelled differently
C17_Witness ==
    /\ op = "matchBody"
    /\ arg.matcher.body = BodyJson([t |-> "obj", v |-> "a:1"])
    /\ req.body = Buffer("{ \"a\": 1 }")
    /\ ret = Bool(TRUE)

\* C17 happens: the request body is not JSON
C17_WitnessParseFailure ==
    /\ op = "matchBody"
    /\ arg.matcher.body.t = "json"
    /\ req.body.t = "buf"
    /\ ~JsonParse(req.body.v).ok
    /\ ret = Bool(FALSE)

\* C18: for a MatcherObj matchRequest is the conjunction of the method, path,
\* query, headers and body predicates, the method predicate being true
\* without a method and otherwise the equality of the two methods in lower
\* case; for a MatcherFn it is what the function returns.
C18_ConjunctionOfPredicates ==
    op = "matchRequest" =>
        ret = Bool(IF arg.matcher.kind = "fn"
                   THEN MatcherFnResult(arg.matcher.fn, req)
                   ELSE /\ \/ arg.matcher.method.t = "absent"
                           \/ ToLowerCase(arg.matcher.method.v)
                                 = ToLowerCase(req.method)
                        /\ matchPath(arg.matcher, req)
                        /\ matchQuery(arg.matcher, req)
                        /\ matchHeaders(arg.matcher, req)
                        /\ matchBody(arg.matcher, req))

-----------------------------------------------------------------------------
(* One registration, from the arguments it is given *)

\* the arguments of mock(), get(), post(), put(), patch() and delete()
MatcherArgs ==
    { StringArg(PathA), RegExpArg(<<"a">>), MatcherArg(EmptyMatcher),
      MatcherArg(MatcherObj(Method("POST"), PathStr(PathB), Absent, Absent,
                            AbsentBody)),
      MatcherArg(MatcherObj(AbsentStr, Absent,
                            Entries(<<[k |-> "q", v |-> StrVal("1")]>>),
                            Absent, BodyStr("hello"))) }
ResponseArgs ==
    { StringResponse("Hello World"), StringResponse(""), NumberResponse(204),
      NumberResponse(0), GivenResponse(Created),
      GivenResponse(ResponseObj(AbsentNum, Absent, AbsentBody)),
      GivenResponse(ResponseFn("echo")) }
OptionsArgs ==
    { NoOptions, GivenOptions("unset"), GivenOptions("true"),
      GivenOptions("false") }

\* what the helpers accept, and what mock() accepts besides
HelperArgs ==
    { Input(m, r, o) : m \in MatcherArgs, r \in ResponseArgs,
                       o \in OptionsArgs }
MockArgs ==
    HelperArgs \cup
    { Input(MatcherArg(MatcherFn("isPost")), r, o) :
        r \in ResponseArgs, o \in OptionsArgs }

\* the registry the registration finds
FoundRegistries ==
    { <<>>,
      << Mock(MethodGet, ResponseObj(AbsentNum, Absent, BodyStr("A")),
              Options("unset")) >> }

\* A registry and the arguments of the registration to come
InitSugar ==
    /\ mocks \in FoundRegistries
    /\ arg \in MockArgs
    /\ calls = <<>>
    /\ server = "null"
    /\ http = NoHttp
    /\ snap = NoSnap
    /\ op = "new"
    /\ req = NoReq
    /\ res = NoRes
    /\ ret = Void
    /\ warnings = <<>>
    /\ invoked = <<>>

CallMock ==
    /\ arg \in MockArgs
    /\ mock(arg.matcher, arg.response, arg.options)

CallGet ==
    /\ arg \in HelperArgs
    /\ get(arg.matcher, arg.response, arg.options)

CallPost ==
    /\ arg \in HelperArgs
    /\ post(arg.matcher, arg.response, arg.options)

CallPut ==
    /\ arg \in HelperArgs
    /\ put(arg.matcher, arg.response, arg.options)

CallPatch ==
    /\ arg \in HelperArgs
    /\ patch(arg.matcher, arg.response, arg.options)

CallDelete ==
    /\ arg \in HelperArgs
    /\ delete(arg.matcher, arg.response, arg.options)

NextSugar ==
    \/ CallMock
    \/ CallGet
    \/ CallPost
    \/ CallPut
    \/ CallPatch
    \/ CallDelete

SpecSugar == InitSugar /\ [][NextSugar]_vars

-----------------------------------------------------------------------------
(* Registration: C19 and C20 *)

\* C19: get(), post(), put(), patch() and delete() register what mock()
\* registers for the given matcher, a string or RegExp first turned into
\* { path }, with its method set to GET, POST, PUT, PATCH or DELETE: the
\* new Mock has the helper's method whatever the argument was, and the
\* response and the options go through mock() unchanged.
C19_HelpersAreSugar ==
    [][LET Sugar(name, method) ==
              op' = name =>
                 /\ AtLast(mocks').matcher.method = Method(method)
                 /\ mocks' =
                       Registered(mocks,
                                  MatcherArg([resolvePathMatcher(arg.matcher)
                                                EXCEPT !.method = Method(method)]),
                                  arg.response, arg.options)
       IN /\ Sugar("get", "GET")
          /\ Sugar("post", "POST")
          /\ Sugar("put", "PUT")
          /\ Sugar("patch", "PATCH")
          /\ Sugar("delete", "DELETE")
    ]_vars

\* C19 happens: get() was given a matcher that names another method, and the
\* Mock it added after the one that was there has the method GET
C19_Witness ==
    /\ op = "get"
    /\ Len(mocks) = 2
    /\ AtLast(mocks).matcher =
          MatcherObj(Method("GET"), PathStr(PathB), Absent, Absent, AbsentBody)

\* C19 happens: delete() was given a RegExp
C19_WitnessRegExp ==
    /\ op = "delete"
    /\ AtLast(mocks).matcher =
          MatcherObj(Method("DELETE"), PathRe(<<"a">>), Absent, Absent,
                     AbsentBody)

\* C20: a registration stores { body: s } for a string response s,
\* { status: n } for a number response n, an object or a function response
\* as it is given, the options as they are given, and {} (overwrite not set)
\* when the options are left out.
C20_RegistrationCoercions ==
    [][op' \in Registrations =>
          /\ arg.response.kind = "string" =>
                AtLast(mocks').response =
                    ResponseObj(AbsentNum, Absent, BodyStr(arg.response.s))
          /\ arg.response.kind = "number" =>
                AtLast(mocks').response =
                    ResponseObj(Status(arg.response.n), Absent, AbsentBody)
          /\ arg.response.kind = "response" =>
                AtLast(mocks').response = arg.response.r
          /\ arg.options.t = "absent" =>
                AtLast(mocks').options = Options("unset")
          /\ arg.options.t = "obj" =>
                AtLast(mocks').options = Options(arg.options.overwrite)
    ]_vars

\* C20 happens: a number response was registered without options
C20_Witness ==
    /\ op = "mock"
    /\ AtLast(mocks).response = ResponseObj(Status(204), Absent, AbsentBody)
    /\ AtLast(mocks).options = Options("unset")

\* C20 happens: a string response was registered
C20_WitnessString ==
    /\ op \in Registrations
    /\ AtLast(mocks).response =
          ResponseObj(AbsentNum, Absent, BodyStr("Hello World"))

\* C20 happens: a function response was registered with overwrite: true
C20_WitnessFunction ==
    /\ op = "mock"
    /\ AtLast(mocks).response = ResponseFn("echo")
    /\ AtLast(mocks).options = Options("true")

-----------------------------------------------------------------------------
(* Requests against a registry that is given *)

PostHello == Request("POST", PathA, <<>>, <<>>, Buffer("hello"))

ServeRequests == { GetA, PostA, GetB, PostHello }

\* the mocks the registry is made of
ServeMocks ==
    { Mock(MatcherObj(AbsentStr, PathStr(PathA), Absent, Absent, AbsentBody),
           ResponseObj(AbsentNum, Absent, BodyStr("A")), Options("unset")),
      Mock(MethodGet, Created, Options("true")),
      Mock(MatcherFn("isPost"), ResponseFn("echo"), Options("unset")),
      Mock(EmptyMatcher, ResponseFn("parsed"), Options("true")),
      Mock(MatcherObj(AbsentStr, PathStr(PathA), Absent, Absent, AbsentBody),
           ResponseFn("throws"), Options("false")),
      Mock(MatcherFn("throws"), ResponseObj(Status(204), Absent, BodyStr("")),
           Options("unset")),
      Mock(MatcherObj(Method("POST"), Absent, Absent, Absent, AbsentBody),
           ResponseFn("teapot"), Options("unset")) }

\* the registries of at most MaxFound mocks
ServeRegistries ==
    UNION { [1..n -> ServeMocks] : n \in 0..MaxFound }

InitServe ==
    /\ mocks \in ServeRegistries
    /\ calls = <<>>
    /\ server = "null"
    /\ http = NoHttp
    /\ snap = NoSnap
    /\ op = "new"
    /\ req = NoReq
    /\ arg = NoArg
    /\ res = NoRes
    /\ ret = Void
    /\ warnings = <<>>
    /\ invoked = <<>>

NextServe ==
    \/ \E r \in ServeRequests : HandleRequest(r)
    \/ resetCalls

SpecServe == InitServe /\ [][NextServe]_vars

-----------------------------------------------------------------------------
(* The handler's outcomes: C21, C22, C23, C29, C30 *)

\* a matcher function of the registry throws on r
SomeMatcherThrows(registry, r) ==
    \E i \in 1..Len(registry) :
        /\ registry[i].matcher.kind = "fn"
        /\ MatcherFnThrows(registry[i].matcher.fn, r)

\* r has a candidate in the registry: the last mock that matches it
HasCandidate(registry, r) ==
    ~SomeMatcherThrows(registry, r) /\ MatchingIndexes(registry, r) # {}

CandidateOf(registry, r) == registry[LastIndex(MatchingIndexes(registry, r))]

\* the candidate is served: it is the only match or it sets overwrite: true
IsServed(registry, r) ==
    /\ HasCandidate(registry, r)
    /\ \/ Cardinality(MatchingIndexes(registry, r)) = 1
       \/ CandidateOf(registry, r).options.overwrite = "true"

\* the candidate's response function, if it has one, throws on r
CandidateThrows(registry, r) ==
    /\ CandidateOf(registry, r).response.kind = "fn"
    /\ ResponseFnThrows(CandidateOf(registry, r).response.fn, r)

\* the response object the served candidate gives for r
ServedObject(registry, r) ==
    IF CandidateOf(registry, r).response.kind = "fn"
    THEN ResponseFnResult(CandidateOf(registry, r).response.fn, r)
    ELSE CandidateOf(registry, r).response

\* JSON.stringify of a Buffer: its bytes, not its text
BufferJson == Content("{\"type\":\"Buffer\",\"data\":[...]}")

\* C21 as stated: a served response function is called with the request, the
\* status is the response's or 200, a string body is sent as it is, a
\* structural body as its JSON text, no body when there is none, and a
\* response function that returns the request body has it sent back as it
\* came.
C21_ResponseBuildingEchoes ==
    [][op' = "request" /\ IsServed(mocks, req')
            /\ ~CandidateThrows(mocks, req') =>
          LET given == CandidateOf(mocks, req').response
              obj == ServedObject(mocks, req')
          IN  /\ given.kind = "fn" =>
                    \E i \in 1..Len(invoked') :
                        invoked'[i] = Invocation("response", given.fn, req')
              /\ res'.status =
                    (IF obj.status.t = "absent" THEN 200 ELSE obj.status.v)
              /\ obj.body.t = "absent" => res'.body = NoContent
              /\ obj.body.t = "str" => res'.body.v = obj.body.v
              /\ obj.body.t = "json" =>
                    res'.body = Content(JsonStringify([t |-> obj.body.jt,
                                                       v |-> obj.body.v]))
              /\ given = ResponseFn("echo") /\ req'.body.t = "buf" =>
                    res'.body = Content(req'.body.v)
    ]_vars

\* C21: a served response function is called with the request, the status is
\* the response's or 200, a string body is sent as it is, a structural body
\* as its JSON text, no body when there is none; the request body is a
\* Buffer, so a response function that returns it has the JSON text of the
\* Buffer sent, and one that parses it first has the parsed value sent back
\* as JSON.
C21_ResponseBuilding ==
    [][op' = "request" /\ IsServed(mocks, req')
            /\ ~CandidateThrows(mocks, req') =>
          LET given == CandidateOf(mocks, req').response
              obj == ServedObject(mocks, req')
          IN  /\ given.kind = "fn" =>
                    \E i \in 1..Len(invoked') :
                        invoked'[i] = Invocation("response", given.fn, req')
              /\ res'.status =
                    (IF obj.status.t = "absent" THEN 200 ELSE obj.status.v)
              /\ obj.body.t = "absent" => res'.body = NoContent
              /\ obj.body.t = "str" => res'.body.v = obj.body.v
              /\ obj.body.t = "json" =>
                    res'.body = Content(JsonStringify([t |-> obj.body.jt,
                                                       v |-> obj.body.v]))
              /\ given = ResponseFn("echo") /\ req'.body.t = "buf" =>
                    /\ res'.body = BufferJson
                    /\ res'.body # Content(req'.body.v)
              /\ given = ResponseFn("parsed") /\ req'.body.t = "buf" =>
                    JsonParse(res'.body.v) = JsonParse(req'.body.v)
    ]_vars

\* C21 happens: a response function that returns the request body is served
\* for a request with the body hello
C21_Witness ==
    /\ op = "request"
    /\ req = PostHello
    /\ IsServed(mocks, req)
    /\ CandidateOf(mocks, req).response = ResponseFn("echo")
    /\ res.status = 200
    /\ res.body = BufferJson

\* C21 happens: a response function that parses the request body is served
C21_WitnessParsed ==
    /\ op = "request"
    /\ req = PostA
    /\ IsServed(mocks, req)
    /\ CandidateOf(mocks, req).response = ResponseFn("parsed")
    /\ res.body = Content("{\"a\":1}")

\* C22: a request that no mock matches logs exactly ("Unmatched", METHOD,
\* PATH); a request that several mocks match, the last of which does not set
\* overwrite: true, logs exactly ("Ambiguous", METHOD, PATH) and then
\* ("use overwrite: true"); a request that is served logs nothing.
C22_WarningsPerOutcome ==
    [][op' = "request" /\ ~SomeMatcherThrows(mocks, req') =>
          /\ MatchingIndexes(mocks, req') = {} =>
                warnings' = << <<"Unmatched", req'.method, req'.path>> >>
          /\ HasCandidate(mocks, req') /\ ~IsServed(mocks, req') =>
                /\ Len(warnings') = 2
                /\ warnings'[1] = <<"Ambiguous", req'.method, req'.path>>
                /\ warnings'[2] = <<"use overwrite: true">>
          /\ IsServed(mocks, req') => warnings' = <<>>
    ]_vars

\* C22 happens: an ambiguous request has logged its two warnings
C22_Witness ==
    /\ op = "request"
    /\ HasCandidate(mocks, req)
    /\ ~IsServed(mocks, req)
    /\ Len(warnings) = 2

\* C22 happens: an unmatched request against a registry that is not empty
C22_WitnessUnmatched ==
    /\ op = "request"
    /\ mocks # <<>>
    /\ ~SomeMatcherThrows(mocks, req)
    /\ MatchingIndexes(mocks, req) = {}
    /\ Len(warnings) = 1

\* C23: a request on which a matcher function of the registry throws, or on
\* which the response function of the served candidate throws, is answered
\* 500; it is not answered 404 and logs no Unmatched warning, even when no
\* other mock matches it.
C23_ThrowIsFatal ==
    [][op' = "request" =>
          /\ SomeMatcherThrows(mocks, req') =>
                /\ res'.status = 500
                /\ warnings' = <<>>
                /\ calls' = calls
          /\ IsServed(mocks, req') /\ CandidateThrows(mocks, req') =>
                /\ res'.status = 500
                /\ warnings' = <<>>
    ]_vars

\* C23 happens: the only mock has a matcher function that throws
C23_Witness ==
    /\ op = "request"
    /\ Len(mocks) = 1
    /\ SomeMatcherThrows(mocks, req)
    /\ res.status = 500

\* C23 happens: the response function of the served candidate throws
C23_WitnessResponse ==
    /\ op = "request"
    /\ IsServed(mocks, req)
    /\ CandidateThrows(mocks, req)
    /\ res.status = 500

\* C29: when several mocks match and the last of them does not set
\* overwrite: true, the request is answered 404 with the Ambiguous warning,
\* whatever the earlier matches set; a mock with overwrite: true that is the
\* only match is served.
C29_LastMatchDecidesAmbiguity ==
    [][op' = "request" /\ HasCandidate(mocks, req') =>
          /\ /\ Cardinality(MatchingIndexes(mocks, req')) >= 2
             /\ CandidateOf(mocks, req').options.overwrite # "true"
             => /\ res' = NotFound
                /\ warnings'[1] = <<"Ambiguous", req'.method, req'.path>>
          /\ /\ Cardinality(MatchingIndexes(mocks, req')) = 1
             /\ CandidateOf(mocks, req').options.overwrite = "true"
             /\ ~CandidateThrows(mocks, req')
             => /\ res'.status =
                      (IF ServedObject(mocks, req').status.t = "absent"
                       THEN 200 ELSE ServedObject(mocks, req').status.v)
                /\ warnings' = <<>>
    ]_vars

\* C29 happens: the first match sets overwrite: true, the last does not, and
\* the request is answered 404
C29_Witness ==
    /\ op = "request"
    /\ HasCandidate(mocks, req)
    /\ Cardinality(MatchingIndexes(mocks, req)) = 2
    /\ \E i \in MatchingIndexes(mocks, req) :
          mocks[i].options.overwrite = "true"
    /\ CandidateOf(mocks, req).options.overwrite # "true"
    /\ res = NotFound

\* C29 happens: the only match sets overwrite: true and is served
C29_WitnessOnlyMatch ==
    /\ op = "request"
    /\ Len(mocks) = 2
    /\ HasCandidate(mocks, req)
    /\ Cardinality(MatchingIndexes(mocks, req)) = 1
    /\ CandidateOf(mocks, req).options.overwrite = "true"
    /\ res.status = 201

\* the calls of response functions among the invocations
ResponseCalls(invocations) ==
    SelectSeq(invocations, LAMBDA i : i.kind = "response")

\* C30: a request that is served calls the response function of the
\* candidate exactly once, with the request, when the candidate's response
\* is a function, and no other response function; a request that is
\* unmatched or ambiguous calls no response function.
C30_ResponseFunctionIsLazy ==
    [][op' = "request" /\ ~SomeMatcherThrows(mocks, req') =>
          /\ IsServed(mocks, req') =>
                ResponseCalls(invoked') =
                    IF CandidateOf(mocks, req').response.kind = "fn"
                    THEN << Invocation("response",
                                       CandidateOf(mocks, req').response.fn,
                                       req') >>
                    ELSE <<>>
          /\ ~IsServed(mocks, req') => ResponseCalls(invoked') = <<>>
    ]_vars

\* C30 happens: two mocks with response functions match, the last is served
\* and only its function was called
C30_Witness ==
    /\ op = "request"
    /\ IsServed(mocks, req)
    /\ Cardinality(MatchingIndexes(mocks, req)) = 2
    /\ \A i \in MatchingIndexes(mocks, req) : mocks[i].response.kind = "fn"
    /\ Len(ResponseCalls(invoked)) = 1

\* C30 happens: an ambiguous request whose candidate has a response function
C30_WitnessAmbiguous ==
    /\ op = "request"
    /\ HasCandidate(mocks, req)
    /\ ~IsServed(mocks, req)
    /\ CandidateOf(mocks, req).response.kind = "fn"
    /\ invoked = <<>>

-----------------------------------------------------------------------------
(* ExpectationMessage *)

\* A number that is the quotient of two integers, or NaN for 0 / 0
Quotient(num, den) ==
    IF den = 0 THEN [nan |-> TRUE, num |-> 0, den |-> 1]
    ELSE [nan |-> FALSE, num |-> num, den |-> den]

\* a < b on such numbers: false when either is NaN
LessThan(a, b) == ~a.nan /\ ~b.nan /\ a.num * b.den < b.num * a.den

\* if (matcher.method), if (matcher.body): a string field that is set and is
\* not the empty string; a body given as an object is truthy
IsTruthyStr(field) == field.t # "absent" /\ (field.t = "str" => field.v # "")

\* if (matcher.path): a string that is not empty, or a RegExp
IsTruthyPath(field) == field.t # "absent" /\ (field.t = "str" => field.v # <<>>)

\* if (matcher.query), if (matcher.headers): any object
IsTruthyObj(field) == field.t # "absent"

\* let maxPoints = 0; ... maxPoints += weight
maxPoints(matcher) ==
    (IF IsTruthyStr(matcher.method) THEN 1 ELSE 0)
    + (IF IsTruthyPath(matcher.path) THEN 3 ELSE 0)
    + (IF IsTruthyObj(matcher.query) THEN 3 ELSE 0)
    + (IF IsTruthyObj(matcher.headers) THEN 2 ELSE 0)
    + (IF IsTruthyStr(matcher.body) THEN 4 ELSE 0)

\* let points = 0; ... if (matchX(matcher, request)) points += weight
points(matcher, r) ==
    (IF IsTruthyStr(matcher.method) /\ matchMethod(matcher, r) THEN 1 ELSE 0)
    + (IF IsTruthyPath(matcher.path) /\ matchPath(matcher, r) THEN 3 ELSE 0)
    + (IF IsTruthyObj(matcher.query) /\ matchQuery(matcher, r) THEN 3 ELSE 0)
    + (IF IsTruthyObj(matcher.headers) /\ matchHeaders(matcher, r) THEN 2 ELSE 0)
    + (IF IsTruthyStr(matcher.body) /\ matchBody(matcher, r) THEN 4 ELSE 0)

\* return (points / maxPoints) * 100
score(matcher, r) == Quotient(100 * points(matcher, r), maxPoints(matcher))

\* a body key that is there with the value undefined
UndefBody == [t |-> "undef", jt |-> "", v |-> ""]

\* tryParse: JSON.parse(body), or body itself when that throws
tryParse(text) ==
    IF JsonParse(text).ok THEN BodyJson(JsonParse(text).val)
    ELSE BodyStr(text)

\* sanitizeRequest: method, path, query and headers of the request, and its
\* body parsed if there is one
sanitizeRequest(r) ==
    [method |-> r.method, path |-> r.path, query |-> r.query,
     headers |-> r.headers,
     body |-> IF r.body.t = "absent" THEN UndefBody ELSE tryParse(r.body.v)]

\* filterKeys on an object given as its entries: the keys asked for, each
\* with obj[key]
filterKeys(entries, keys) ==
    [i \in 1..Len(keys) |-> [k |-> keys[i], v |-> Lookup(entries, keys[i])]]

\* Object.keys of an object given as its entries
Keys(entries) == [i \in 1..Len(entries) |-> entries[i].k]

\* The object formatDiff compares the matcher with: the request fields the
\* matcher has, its query and headers cut down to the matcher's keys
Actual(matcher, r) ==
    MatcherObj(
        IF matcher.method.t = "absent" THEN AbsentStr
        ELSE Method(sanitizeRequest(r).method),
        IF matcher.path.t = "absent" THEN Absent
        ELSE PathStr(sanitizeRequest(r).path),
        IF matcher.query.t = "absent" THEN Absent
        ELSE Entries(filterKeys(sanitizeRequest(r).query,
                                Keys(matcher.query.v))),
        IF matcher.headers.t = "absent" THEN Absent
        ELSE Entries(filterKeys(sanitizeRequest(r).headers,
                                Keys(matcher.headers.v))),
        IF matcher.body.t = "absent" THEN AbsentBody
        ELSE sanitizeRequest(r).body)

\* formatDiff: diff(matcher, actual), kept as the two objects it compares
formatDiff(matcher, r) ==
    [expected |-> matcher, actual |-> Actual(matcher, r)]

\* `${request.method} ${request.path}:\n${formatDiff(matcher, request)}`
Block(matcher, r) ==
    [method |-> r.method, path |-> r.path, diff |-> formatDiff(matcher, r)]

\* A slip in InsertByScore: an entry goes before the entries of equal score
RECURSIVE InsertByScore_BeforeEqual(_, _)
InsertByScore_BeforeEqual(sorted, x) ==
    IF sorted = <<>> THEN <<x>>
    ELSE IF ~LessThan(x.score, Head(sorted).score) THEN <<x>> \o sorted
    ELSE <<Head(sorted)>> \o InsertByScore_BeforeEqual(Tail(sorted), x)

\* toSorted with (a, b) => scoreB - scoreA, one entry at a time: an entry
\* goes before the first entry whose score is less than its own; a
\* difference that is 0 or NaN leaves two entries in the order they had
RECURSIVE InsertByScore(_, _)
InsertByScore(sorted, x) ==
    IF sorted = <<>> THEN <<x>>
    ELSE IF LessThan(Head(sorted).score, x.score) THEN <<x>> \o sorted
    ELSE <<Head(sorted)>> \o InsertByScore(Tail(sorted), x)

\* .map(({ request }) => [request, score(matcher, request)]).toSorted(...)
RECURSIVE toSorted(_, _)
toSorted(ledger, matcher) ==
    IF ledger = <<>> THEN <<>>
    ELSE InsertByScore(
            toSorted(SubSeq(ledger, 1, Len(ledger) - 1), matcher),
            [request |-> AtLast(ledger).request,
             score |-> score(matcher, AtLast(ledger).request)])

\* "No diff (matcher is a function)", and the part of a message without diffs
NoDiff == [t |-> "nodiff", v |-> <<>>]
NoDiffs == [t |-> "none", v |-> <<>>]

\* A slip in formatDiffs: a function matcher is scored and compared
formatDiffs_ScoresFunctions(ledger, matcher) ==
    [t |-> "blocks",
     v |-> [i \in 1..Len(ledger) |->
              Block(matcher, toSorted(ledger, matcher)[i].request)]]

\* formatDiffs: the blocks of the recorded calls, joined in sorted order
formatDiffs(ledger, matcher) ==
    IF matcher.kind = "fn" THEN NoDiff
    ELSE [t |-> "blocks",
          v |-> [i \in 1..Len(ledger) |->
                   Block(matcher, toSorted(ledger, matcher)[i].request)]]

\* formatMatcher: matcher.toString() or JSON.stringify(matcher, null, 2)
formatMatcher(matcher) ==
    IF matcher.kind = "fn"
    THEN [t |-> "source", fn |-> matcher.fn, json |-> EmptyMatcher]
    ELSE [t |-> "json", fn |-> "", json |-> matcher]

\* mockServer.countCalls(matcher): the recorded calls whose request
\* satisfies the matcher
countCalls(ledger, matcher) ==
    Len(SelectSeq(ledger, LAMBDA c : matchRequest(matcher, c.request)))

\* ExpectationMessage.hasBeenCalledWith: "Expected 'mockServer' to have been
\* called with matcher:", the matcher, the diffs
hasBeenCalledWithMessage(ledger, matcher) ==
    [kind |-> "calledWith", times |-> 0, actual |-> 0,
     matcher |-> formatMatcher(matcher),
     diffs |-> formatDiffs(ledger, matcher)]

\* A slip in hasBeenCalledTimesMessage: the counts are reported also when
\* no call was counted
hasBeenCalledTimesMessage_AlwaysCounts(ledger, times, matcher) ==
    [kind |-> "calledTimes", times |-> times,
     actual |-> countCalls(ledger, matcher),
     matcher |-> formatMatcher(matcher), diffs |-> NoDiffs]

\* ExpectationMessage.hasBeenCalledTimes: "Expected 'mockServer' to have
\* been called ${times} times with matcher:", the matcher, "Actual calls:",
\* the count; or the message of hasBeenCalledWith when the count is 0
hasBeenCalledTimesMessage(ledger, times, matcher) ==
    IF countCalls(ledger, matcher) > 0
    THEN [kind |-> "calledTimes", times |-> times,
          actual |-> countCalls(ledger, matcher),
          matcher |-> formatMatcher(matcher), diffs |-> NoDiffs]
    ELSE hasBeenCalledWithMessage(ledger, matcher)

MessageFrame(name) ==
    /\ op' = name
    /\ req' = NoReq
    /\ res' = NoRes
    /\ warnings' = <<>>
    /\ UNCHANGED <<mocks, calls, server, http, snap, arg>>

FormatCalledWith ==
    /\ ret' = hasBeenCalledWithMessage(calls, arg.matcher)
    /\ invoked' = <<>>
    /\ MessageFrame("ExpectationMessage.hasBeenCalledWith")

FormatCalledTimes ==
    /\ ret' = hasBeenCalledTimesMessage(calls, arg.times, arg.matcher)
    /\ invoked' = InvokedByFilter(arg.matcher, calls)
    /\ MessageFrame("ExpectationMessage.hasBeenCalledTimes")

\* the matchers a message is asked for
MessageMatchers ==
    { EmptyMatcher,
      MatcherObj(Method(""), Absent, Absent, Absent, AbsentBody),
      MatcherObj(Method("GET"), PathStr(PathA), Absent, Absent, AbsentBody),
      MatcherObj(Method("POST"), Absent, Absent, Absent, BodyStr("")),
      MatcherObj(Method("POST"), PathStr(PathB), Absent,
                 Entries(<<[k |-> "X-Id", v |-> StrVal("7")]>>),
                 BodyJson([t |-> "obj", v |-> "a:1"])),
      MatcherFn("isPost"),
      MatcherFn("always") }

PostJson ==
    Request("POST", PathB, <<>>, <<[k |-> "x-id", v |-> StrVal("7")]>>,
            Buffer("{ \"a\": 1 }"))

\* the requests of the recorded calls
RecordedRequests == { GetA, PostA, GetB, PostHello, PostJson }

\* mockServer.calls() at the time the message is asked for
Ledgers ==
    UNION { [1..n -> { Call(r, EmptyMatcher) : r \in RecordedRequests }] :
              n \in 0..MaxRecorded }

InitMsg ==
    /\ mocks = <<>>
    /\ calls \in Ledgers
    /\ server = "null"
    /\ http = NoHttp
    /\ snap = NoSnap
    /\ op = "new"
    /\ req = NoReq
    /\ arg \in [matcher : MessageMatchers, times : 1..2]
    /\ res = NoRes
    /\ ret = Void
    /\ warnings = <<>>
    /\ invoked = <<>>

NextMsg ==
    \/ FormatCalledWith
    \/ FormatCalledTimes

SpecMsg == InitMsg /\ [][NextMsg]_vars

\* the orders in which the n recorded calls can be listed
Orders(n) ==
    { f \in [1..n -> 1..n] : \A i, j \in 1..n : f[i] = f[j] => i = j }

\* blocks are those of the recorded calls, listed in the order f
ListsInOrder(blocks, ledger, matcher, f) ==
    /\ Len(blocks) = Len(ledger)
    /\ \A i \in 1..Len(ledger) :
          blocks[i] = Block(matcher, ledger[f[i]].request)

\* the order f is by score descending, calls of equal score in the order of
\* their arrival
DescendingStable(ledger, matcher, f) ==
    \A i, j \in 1..Len(ledger) :
        i < j =>
            LET si == score(matcher, ledger[f[i]].request)
                sj == score(matcher, ledger[f[j]].request)
            IN /\ ~LessThan(si, sj)
               /\ ~LessThan(sj, si) => f[i] < f[j]

\* C24: the message of hasBeenCalledWith for an object matcher lists one
\* block per recorded call, by similarity score descending, calls of equal
\* score in the order of their arrival.
C24_BlocksByScoreDescending ==
    op = "ExpectationMessage.hasBeenCalledWith" /\ arg.matcher.kind = "obj"
    => /\ ret.diffs.t = "blocks"
       /\ \E f \in Orders(Len(calls)) :
             /\ ListsInOrder(ret.diffs.v, calls, arg.matcher, f)
             /\ DescendingStable(calls, arg.matcher, f)

\* C24 happens: three calls recorded, the last has the highest score and is
\* listed first, the other two tie and keep their order
C24_Witness ==
    /\ op = "ExpectationMessage.hasBeenCalledWith"
    /\ arg.matcher.kind = "obj"
    /\ Len(calls) = 3
    /\ calls[1].request # calls[2].request
    /\ LessThan(score(arg.matcher, calls[1].request),
                score(arg.matcher, calls[3].request))
    /\ score(arg.matcher, calls[1].request)
          = score(arg.matcher, calls[2].request)
    /\ ret.diffs.v = << Block(arg.matcher, calls[3].request),
                        Block(arg.matcher, calls[1].request),
                        Block(arg.matcher, calls[2].request) >>

\* a field of the matcher is present
IsPresent(field) == field.t # "absent"

\* the weights of the fields present in the matcher
PresentWeight(matcher) ==
    (IF IsPresent(matcher.method) THEN 1 ELSE 0)
    + (IF IsPresent(matcher.path) THEN 3 ELSE 0)
    + (IF IsPresent(matcher.query) THEN 3 ELSE 0)
    + (IF IsPresent(matcher.headers) THEN 2 ELSE 0)
    + (IF IsPresent(matcher.body) THEN 4 ELSE 0)

\* the weights of the fields present in the matcher whose predicate holds
MatchedWeight(matcher, r) ==
    (IF IsPresent(matcher.method) /\ matchMethod(matcher, r) THEN 1 ELSE 0)
    + (IF IsPresent(matcher.path) /\ matchPath(matcher, r) THEN 3 ELSE 0)
    + (IF IsPresent(matcher.query) /\ matchQuery(matcher, r) THEN 3 ELSE 0)
    + (IF IsPresent(matcher.headers) /\ matchHeaders(matcher, r) THEN 2
       ELSE 0)
    + (IF IsPresent(matcher.body) /\ matchBody(matcher, r) THEN 4 ELSE 0)

\* the number s is num / den
IsQuotient(s, num, den) == ~s.nan /\ s.num * den = num * s.den

\* C25: the similarity score of a recorded request against an object
\* matcher with at least one field is 100 times the weights of the fields
\* whose predicate holds over the weights of the fields present (method 1,
\* path 3, query 3, headers 2, body 4), a number from 0 to 100.
C25_ScoreIsWeightedShare ==
    /\ op = "ExpectationMessage.hasBeenCalledWith"
    /\ arg.matcher.kind = "obj"
    /\ PresentWeight(arg.matcher) > 0
    => \A i \in 1..Len(calls) :
          LET s == score(arg.matcher, calls[i].request)
          IN /\ IsQuotient(s, 100 * MatchedWeight(arg.matcher,
                                                  calls[i].request),
                           PresentWeight(arg.matcher))
             /\ ~LessThan(s, Quotient(0, 1))
             /\ ~LessThan(Quotient(100, 1), s)

\* C26: the similarity score of a recorded request against a matcher with
\* no applicable field is 100, and the blocks of the message are in the
\* order of arrival.
C26_NoFieldScoresHundred ==
    /\ op = "ExpectationMessage.hasBeenCalledWith"
    /\ arg.matcher.kind = "obj"
    /\ maxPoints(arg.matcher) = 0
    => /\ \A i \in 1..Len(calls) :
             IsQuotient(score(arg.matcher, calls[i].request), 100, 1)
       /\ ListsInOrder(ret.diffs.v, calls, arg.matcher,
                       [i \in 1..Len(calls) |-> i])

\* the recorded calls whose request satisfies the matcher
Satisfying(ledger, matcher) ==
    { i \in 1..Len(ledger) : matchRequest(matcher, ledger[i].request) }

\* C27: the message of hasBeenCalledTimes reports the expected and the
\* actual count and has no diff when the matcher matches at least one
\* recorded call; when it matches none, the message is the message of
\* hasBeenCalledWith for the same matcher.
C27_CountsOrDelegates ==
    op = "ExpectationMessage.hasBeenCalledTimes"
    => IF Satisfying(calls, arg.matcher) # {}
       THEN /\ ret.kind = "calledTimes"
            /\ ret.times = arg.times
            /\ ret.actual = Cardinality(Satisfying(calls, arg.matcher))
            /\ ret.matcher = formatMatcher(arg.matcher)
            /\ ret.diffs = NoDiffs
       ELSE ret = hasBeenCalledWithMessage(calls, arg.matcher)

\* C27 happens: two of three recorded calls match, the counts are reported
C27_Witness ==
    /\ op = "ExpectationMessage.hasBeenCalledTimes"
    /\ Len(calls) = 3
    /\ Cardinality(Satisfying(calls, arg.matcher)) = 2
    /\ arg.times = 1
    /\ ret.kind = "calledTimes"
    /\ ret.actual = 2

\* C27 happens: calls are recorded and none matches, the message has the
\* blocks of hasBeenCalledWith
C27_WitnessDelegates ==
    /\ op = "ExpectationMessage.hasBeenCalledTimes"
    /\ Len(calls) = 2
    /\ Satisfying(calls, arg.matcher) = {}
    /\ ret.kind = "calledWith"
    /\ ret.diffs.t = "blocks"
    /\ Len(ret.diffs.v) = 2

\* C28: for a function matcher the message of hasBeenCalledWith is the
\* source text of the function followed by "No diff (matcher is a
\* function)" whatever calls are recorded, and building it does not call the
\* function; the message of hasBeenCalledTimes shows the source text too and
\* has no block of a recorded call either.
C28_FunctionMatcherHasNoDiff ==
    arg.matcher.kind = "fn"
    => /\ op = "ExpectationMessage.hasBeenCalledWith" =>
             /\ ret.matcher.t = "source"
             /\ ret.matcher.fn = arg.matcher.fn
             /\ ret.diffs = NoDiff
             /\ invoked = <<>>
       /\ op = "ExpectationMessage.hasBeenCalledTimes" =>
             /\ ret.matcher.t = "source"
             /\ ret.matcher.fn = arg.matcher.fn
             /\ ret.diffs \in { NoDiff, NoDiffs }

\* C28 happens: three calls are recorded, the function would match one of
\* them, and the message of hasBeenCalledWith has no diff
C28_Witness ==
    /\ op = "ExpectationMessage.hasBeenCalledWith"
    /\ arg.matcher.kind = "fn"
    /\ Len(calls) = 3
    /\ Cardinality(Satisfying(calls, arg.matcher)) = 1
    /\ ret.diffs = NoDiff
    /\ invoked = <<>>

\* C38: for an object matcher with at least one field, the similarity
\* score of a recorded request is 100 exactly when matchRequest holds for
\* the matcher and the request.
C38_ScoreAgreesWithEvaluator ==
    /\ op = "ExpectationMessage.hasBeenCalledWith"
    /\ arg.matcher.kind = "obj"
    /\ PresentWeight(arg.matcher) > 0
    => \A i \in 1..Len(calls) :
          IsQuotient(score(arg.matcher, calls[i].request), 100, 1)
              <=> matchRequest(arg.matcher, calls[i].request)

\* the value the diff of the block shows for the j-th header of the matcher
ShownHeader(block, j) == block.diff.actual.headers.v[j].v

C37_CallRecordedBeforeResponse ==
    [][op' = "request" =>
          /\ IsServed(mocks, req') /\ CandidateThrows(mocks, req') =>
                /\ calls' = Append(calls,
                                   Call(req', CandidateOf(mocks, req').matcher))
                /\ CalledWith(calls', MatcherArg(EmptyMatcher))
                /\ CalledTimes(calls', Len(calls) + 1,
                               MatcherArg(EmptyMatcher))
          /\ SomeMatcherThrows(mocks, req') =>
                /\ calls' = calls
                /\ CalledTimes(calls', Len(calls), MatcherArg(EmptyMatcher))
    ]_vars

\* C37 happens: the response function of the served candidate threw, the
\* request was answered 500 and its Call is the last of the ledger
C37_Witness ==
    /\ op = "request"
    /\ IsServed(mocks, req)
    /\ CandidateThrows(mocks, req)
    /\ res = InternalServerError
    /\ calls # <<>>
    /\ AtLast(calls) = Call(req, CandidateOf(mocks, req).matcher)

\* C37 happens: a matcher function threw on a request that another mock
\* matches, and no Call was recorded
C37_WitnessMatcher ==
    /\ op = "request"
    /\ SomeMatcherThrows(mocks, req)
    /\ MatchingIndexes(mocks, req) # {}
    /\ calls = <<>>

\* start() and then stop() have both completed: the listen callback and
\* every close callback have fired, and the listener is closed
StartedAndStopped ==
    /\ http.state = "closed"
    /\ ~http.listenPending
    /\ http.closePending = 0

\* the listener is open: it is binding or it listens
ListenerOpen(h) == h.state \in {"binding", "listening"}

\* C35: a start() that follows a completed start() and a completed stop()
\* opens the listener again and logs no "Server is already running", and
\* after every operation this.#server is set exactly when the listener is
\* open.
C35_ServerCanBeRestarted ==
    [][/\ op' = "start" /\ StartedAndStopped =>
            /\ warnings' = <<>>
            /\ ListenerOpen(http')
       /\ (server' # "null") <=> ListenerOpen(http')
    ]_vars

\* C36: when the promise a start() returned is resolved, the server listens:
\* the promise of a start() that found this.#server set is resolved when it
\* is returned, the promise of the other start() calls when the listen
\* callback fires.
C36_StartResolvesWhenListening ==
    [][/\ op' = "start" /\ ret' = Promise("resolved") =>
            http'.state = "listening"
       /\ op' = "listening" => ret' = Promise("resolved")
                               /\ http'.state = "listening"
    ]_vars

\* the matchers the call queries are followed with
Probes == { StringArg(PathA), MatcherArg(MatcherFn("isPost")) }

\* the number of recorded calls whose request satisfies the matcher
CountOf(ledger, matcherArg) ==
    Cardinality(Satisfying(ledger, resolvePathMatcher(matcherArg)))

\* C33: the number of recorded calls that satisfy a matcher does not go
\* down, and hasBeenCalledWith stays true once it is true, through requests,
\* registrations, resetMocks() and call queries; after resetCalls() or
\* reset() hasBeenCalledWith is false.
C33_CalledWithIsStable ==
    [][\A m \in Probes :
          IF op' \in {"resetCalls", "reset"}
          THEN ~CalledWith(calls', m)
          ELSE /\ CountOf(calls', m) >= CountOf(calls, m)
               /\ CalledWith(calls, m) => CalledWith(calls', m)
    ]_vars

\* C33 happens: a call that satisfies the matcher was recorded, then a
\* request that does not satisfy it, and hasBeenCalledWith is still true
C33_Witness ==
    /\ op = "request"
    /\ Len(calls) = 2
    /\ matchRequest(resolvePathMatcher(StringArg(PathA)), calls[1].request)
    /\ ~matchRequest(resolvePathMatcher(StringArg(PathA)), calls[2].request)
    /\ CalledWith(calls, StringArg(PathA))

\* C33 happens: resetMocks() has left a call that satisfies the matcher
C33_WitnessResetMocks ==
    /\ op = "resetMocks"
    /\ CountOf(calls, StringArg(PathA)) = 2

\* C34: a request that no registered mock matches adds nothing to what
\* hasBeenCalledWith and hasBeenCalledTimes count, also when it satisfies
\* the queried matcher; a request answered 404 as ambiguous adds one to the
\* count of every matcher it satisfies.
C34_QueriesSeeMatchedRequestsOnly ==
    [][op' = "request" =>
          \A m \in Probes :
              /\ MatchingIndexes(mocks, req') = {} =>
                    /\ res' = NotFound
                    /\ CountOf(calls', m) = CountOf(calls, m)
                    /\ CalledWith(calls', m) = CalledWith(calls, m)
              /\ /\ Cardinality(MatchingIndexes(mocks, req')) >= 2
                 /\ CandidateOf(mocks, req').options.overwrite # "true"
                 /\ matchRequest(resolvePathMatcher(m), req')
                 => /\ res' = NotFound
                    /\ CountOf(calls', m) = CountOf(calls, m) + 1
                    /\ CalledWith(calls', m)
                    /\ ~CalledTimes(calls', 0, m)
    ]_vars

\* C34 happens: a request that satisfies the matcher was answered 404 as
\* unmatched and the ledger is empty
C34_Witness ==
    /\ op = "request"
    /\ MatchingIndexes(mocks, req) = {}
    /\ matchRequest(resolvePathMatcher(StringArg(PathA)), req)
    /\ res = NotFound
    /\ calls = <<>>

\* C34 happens: a request answered 404 as ambiguous is the only call of the
\* ledger
C34_WitnessAmbiguous ==
    /\ op = "request"
    /\ Cardinality(MatchingIndexes(mocks, req)) >= 2
    /\ CandidateOf(mocks, req).options.overwrite # "true"
    /\ res = NotFound
    /\ Len(calls) = 1
    /\ CountOf(calls, StringArg(PathA)) = 1

-----------------------------------------------------------------------------
(* The server with every operation on its two stores: C32 *)

\* a registry of at most MaxFound mocks is built with mock() and the
\* method-scoped helpers, requests are handled, and the stores are read
NextStores ==
    \/ \E i \in SnapMockInputs :
          Len(mocks) < MaxFound /\ mock(i.matcher, i.response, i.options)
    \/ \E i \in HelperInputs :
          Len(mocks) < MaxFound /\ get(i.matcher, i.response, i.options)
    \/ \E i \in HelperInputs :
          Len(mocks) < MaxFound /\ post(i.matcher, i.response, i.options)
    \/ \E i \in HelperInputs :
          Len(mocks) < MaxFound /\ put(i.matcher, i.response, i.options)
    \/ \E i \in HelperInputs :
          Len(mocks) < MaxFound /\ patch(i.matcher, i.response, i.options)
    \/ \E i \in HelperInputs :
          Len(mocks) < MaxFound /\ delete(i.matcher, i.response, i.options)
    \/ HandleRequest(GetA)
    \/ \E m \in QueryInputs : hasBeenCalledWith(m)
    \/ \E m \in QueryInputs : hasBeenCalledTimes(1, m)
    \/ listMocks
    \/ listCalls

SpecStores == Init /\ [][NextStores]_vars

\* the outcome of the request r on the registry
Outcome(registry, r) ==
    IF MatchingIndexes(registry, r) = {} THEN "Unmatched"
    ELSE IF Cardinality(MatchingIndexes(registry, r)) = 1 THEN "SingleMatch"
    ELSE IF CandidateOf(registry, r).options.overwrite = "true"
    THEN "AmbiguousOverwritten"
    ELSE "Ambiguous"

\* C32: a handled request leaves the registry as it was, whatever its
\* outcome; mock(), get(), post(), put(), patch() and delete() leave the
\* ledger as it was; hasBeenCalledWith, hasBeenCalledTimes, mocks() and
\* calls() leave both as they were.
C32_StoresAreFramed ==
    [][/\ op' = "request" => mocks' = mocks
       /\ op' \in Registrations => calls' = calls
       /\ op' \in {"hasBeenCalledWith", "hasBeenCalledTimes", "mocks",
                   "calls"} => mocks' = mocks /\ calls' = calls
    ]_vars

\* C32 happens: a request was served by the overwriting mock of two that
\* match, it was recorded, and the registry has its mocks
C32_Witness ==
    /\ op = "request"
    /\ Outcome(mocks, req) = "AmbiguousOverwritten"
    /\ Len(mocks) = MaxFound
    /\ calls # <<>>

\* C32 happens: an ambiguous request
C32_WitnessAmbiguous ==
    /\ op = "request"
    /\ Outcome(mocks, req) = "Ambiguous"
    /\ Len(mocks) = MaxFound

\* C32 happens: a helper has registered a mock and the ledger has its calls
C32_WitnessRegistration ==
    /\ op \in Registrations \ {"mock"}
    /\ Len(calls) = MaxCalls
    /\ mocks # <<>>

\* C32 happens: the ledger was queried with calls recorded and mocks
\* registered
C32_WitnessQuery ==
    /\ op = "hasBeenCalledTimes"
    /\ ret = Bool(TRUE)
    /\ mocks # <<>>

-----------------------------------------------------------------------------
(* The request handler with matcher and response functions that call the
   server back: C31 *)

\* the mock the function "registers" registers:
\* mockServer.mock({}, "late", { overwrite: true })
LateMock ==
    Mock(EmptyMatcher, ResponseObj(AbsentNum, Absent, BodyStr("late")),
         Options("true"))

\* The arrays of a run of the handler: mocks is what this.#mocks holds,
\* filtered is what the array that filter was called on holds, and same
\* says that the two are one array
Arrays(registry) == [mocks |-> registry, filtered |-> registry, same |-> TRUE]

\* What a function called by the handler does to the arrays: "registers"
\* calls mock(), which pushes to this.#mocks; "resets" calls resetMocks(),
\* which assigns a new array to this.#mocks; the other functions call nothing
CallBack(arrays, name) ==
    CASE name = "registers" ->
            [arrays EXCEPT !.mocks = Append(@, LateMock),
                           !.filtered = IF arrays.same
                                        THEN Append(@, LateMock) ELSE @]
      [] name = "resets" -> [arrays EXCEPT !.mocks = <<>>, !.same = FALSE]
      [] OTHER -> arrays

\* A slip in FilterLength: the length is read again for every element
FilterLength_Live(len, arrays) == Len(arrays.filtered)

\* Array.prototype.filter reads the length of its array once, before the
\* first call of the callback
FilterLength(len, arrays) == len

\* this.#mocks.filter(({ matcher }) => matchRequest(matcher, req)) from the
\* k-th element on: the matches, and the arrays as the matcher functions
\* leave them
RECURSIVE FilterFrom(_, _, _, _, _)
FilterFrom(k, len, arrays, matches, r) ==
    IF k > FilterLength(len, arrays) THEN [matches |-> matches,
                                           arrays |-> arrays]
    ELSE LET m == arrays.filtered[k]
             after == IF m.matcher.kind = "fn"
                      THEN CallBack(arrays, m.matcher.fn)
                      ELSE arrays
         IN FilterFrom(k + 1, len, after,
                       IF matchRequest(m.matcher, r)
                       THEN Append(matches, m) ELSE matches,
                       r)

\* the run of filter on the registry
Filtered(registry, r) ==
    FilterFrom(1, Len(registry), Arrays(registry), <<>>, r)

\* the candidate of the run is served: its response is built
Serves(matches) == matches # <<>> /\ ~IsAmbiguous(matches)

\* this.#mocks when the handler has returned: match.response(req) is called
\* when the candidate is served
MocksAfter(registry, r) ==
    LET run == Filtered(registry, r) IN
    IF Serves(run.matches) /\ Candidate(run.matches).response.kind = "fn"
    THEN CallBack(run.arrays, Candidate(run.matches).response.fn).mocks
    ELSE run.arrays.mocks

\* The handler on r, with functions that call mock() and resetMocks(); none
\* of the functions here throws
HandleReentrant(r) ==
    /\ Len(calls) < MaxCalls
    /\ Len(MocksAfter(mocks, r)) <= MaxMocks
    /\ LET matches == Filtered(mocks, r).matches IN
       /\ calls' = IF matches = <<>> THEN calls
                   ELSE Append(calls, Call(r, Candidate(matches).matcher))
       /\ res' = IF ~Serves(matches) THEN NotFound
                 ELSE Build(ResolveResponse(Candidate(matches).response, r))
       /\ warnings' = IF matches = <<>> THEN UnmatchedWarnings(r)
                      ELSE IF IsAmbiguous(matches) THEN AmbiguousWarnings(r)
                      ELSE <<>>
       /\ invoked' =
             [i \in 1..Len(SelectSeq(mocks, LAMBDA m : m.matcher.kind = "fn"))
                |-> Invocation("matcher",
                               SelectSeq(mocks,
                                         LAMBDA m : m.matcher.kind = "fn")[i]
                                   .matcher.fn, r)]
             \o (IF Serves(matches)
                 THEN ResponseInvocations(Candidate(matches).response, r)
                 ELSE <<>>)
    /\ mocks' = MocksAfter(mocks, r)
    /\ op' = "request"
    /\ req' = r
    /\ arg' = NoArg
    /\ ret' = Void
    /\ UNCHANGED <<snap, server, http>>

\* the mocks of the registry the handler finds
ReentrantMocks ==
    { Mock(MatcherFn("registers"),
           ResponseObj(AbsentNum, Absent, BodyStr("R")), Options("unset")),
      Mock(MatcherFn("resets"),
           ResponseObj(AbsentNum, Absent, BodyStr("S")), Options("true")),
      Mock(MatcherObj(AbsentStr, PathStr(PathA), Absent, Absent, AbsentBody),
           ResponseFn("registers"), Options("unset")),
      Mock(MatcherObj(AbsentStr, PathStr(PathA), Absent, Absent, AbsentBody),
           ResponseFn("resets"), Options("true")),
      Mock(MatcherObj(AbsentStr, PathStr(PathB), Absent, Absent, AbsentBody),
           ResponseObj(AbsentNum, Absent, BodyStr("B")), Options("true")) }

InitReentrant ==
    /\ mocks \in UNION { [1..n -> ReentrantMocks] : n \in 0..MaxFound }
    /\ calls = <<>>
    /\ server = "null"
    /\ http = NoHttp
    /\ snap = NoSnap
    /\ op = "new"
    /\ req = NoReq
    /\ arg = NoArg
    /\ res = NoRes
    /\ ret = Void
    /\ warnings = <<>>
    /\ invoked = <<>>

NextReentrant ==
    \/ \E r \in {GetA, GetB} : HandleReentrant(r)
    \/ resetMocks
    \/ resetCalls

SpecReentrant == InitReentrant /\ [][NextReentrant]_vars

\* the registry after the calls of mock() and resetMocks() that the named
\* functions make, one after the other
RECURSIVE RegistryAfter(_, _)
RegistryAfter(registry, invocations) ==
    IF invocations = <<>> THEN registry
    ELSE RegistryAfter(
            CASE Head(invocations).fn = "registers" ->
                    Append(registry, LateMock)
              [] Head(invocations).fn = "resets" -> <<>>
              [] OTHER -> registry,
            Tail(invocations))

\* C31: the response, the recorded Call and the warnings of a request are
\* those of the registry as it was when the handler began to match, also
\* when a matcher function or the response function of that request calls
\* mock() or resetMocks(); and when the handler has returned the registry is
\* the one these calls leave, in the order they were made, which the next
\* request is matched against.
C31_ResolutionIsAtomic ==
    [][op' = "request" =>
          /\ res' = ResponseFor(mocks, req')
          /\ calls' = CallsAfter(mocks, calls, req')
          /\ warnings' = WarningsFor(mocks, req')
          /\ mocks' = RegistryAfter(mocks, InvokedFor(mocks, req'))
    ]_vars

\* a function with that name was called by the last operation
WasCalled(kind, name) ==
    \E i \in 1..Len(invoked) : invoked[i].kind = kind /\ invoked[i].fn = name

\* C31 happens: a matcher function registered an overwriting mock that
\* matches the request while the request was matched; the request was served
\* by the mock of that matcher function and the new mock is the last of the
\* registry
C31_Witness ==
    /\ op = "request"
    /\ WasCalled("matcher", "registers")
    /\ ~WasCalled("matcher", "resets")
    /\ res.body = Content("R")
    /\ AtLast(mocks) = LateMock

\* C31 happens: a request is served by a mock that a function registered
\* during an earlier request
C31_WitnessNextRequest ==
    /\ op = "request"
    /\ Len(calls) = 2
    /\ AtLast(calls).matcher = LateMock.matcher
    /\ res.body = Content("late")

\* C31 happens: a matcher function called resetMocks() before the matcher
\* of a later mock was evaluated, and the request was served by the later
\* mock
C31_WitnessReset ==
    /\ op = "request"
    /\ WasCalled("matcher", "resets")
    /\ res.body = Content("B")
    /\ mocks = <<>>

\* C31 happens: the response function called resetMocks()
C31_WitnessResponse ==
    /\ op = "request"
    /\ WasCalled("response", "resets")
    /\ res.status = 200
    /\ Len(calls) = 1
    /\ mocks = <<>>

====
